---- MODULE Spec2Model ----
(***************************************************************************)
(* A state-machine model of the WD1770 floppy-disk controller of Clock     *)
(* Signal (src/unnamed/part_000, "1770.cpp").                              *)
(*                                                                         *)
(* The controller object is the record wd; the drive it derives from       *)
(* (Storage::Disk::Drive, whose source is not part of the excerpt) is the  *)
(* record drive.  run_for_cycles is modelled statement by statement: the   *)
(* call adds to the cycle accumulator, and each iteration of its while     *)
(* loop is one LoopStep; pc records whether the call is still inside the   *)
(* loop.  No other operation can start while pc = "loop" (the program is   *)
(* single threaded and every call runs to completion); the one call that   *)
(* comes in from outside is process_index_hole, which the drive makes      *)
(* while the iteration runs it, before the iteration's switch(state_).     *)
(*                                                                         *)
(* The same module models the bus handler of the Amiga                     *)
(* (src/Machines/Amiga/Amiga.cpp) as the record amiga: one action hands    *)
(* one bus cycle to perform_bus_operation, which runs to completion.       *)
(***************************************************************************)
EXTENDS Integers, Naturals, Sequences, FiniteSets, TLC

VARIABLES wd, drive, pc, hist, usteps, meter, bus, amiga, build, ppc, mac

vars == <<wd, drive, pc, hist, usteps, meter, bus, amiga, build, ppc, mac>>

(***************************************************************************)
(* Bounds of the model.                                                    *)
(***************************************************************************)
\* physical head positions of the drive are 0..MaxHead
MaxHead == 2
\* the index hole passes only in iterations entered with index_hole_count_
\* below this
MaxIndexHoles == 7
\* set_register is called at most this many times in a behaviour of Spec or
\* SpecRegs
MaxWrites == 2
\* and at most this many times in one of SpecFollow, where a command is
\* written over the one in progress or after it
MaxFollowWrites == 2
\* run_for_cycles is called only while step_delay_.count is below this (the count
\* grows without limit once a command write has lowered the rate under it)
MaxStepDelay == 5
\* what an unset cycle accumulator held is followed as a number up to this
MaxStored == 0
\* the drive's rotation is counted modulo this many drive cycles
RotationLength == 2

(***************************************************************************)
(* Program constants.                                                      *)
(***************************************************************************)
\* run_for_cycles: "perform one step every eight cycles"
CyclesPerStep == 8
\* process_index_hole: the pulse that ends the wait
SixPulses == 6

(***************************************************************************)
(* 8-bit arithmetic.                                                       *)
(***************************************************************************)
Byte == 0..255

(***************************************************************************)
(* Members the constructor does not write.  WD1770::WD1770 sets state_,    *)
(* status_ and has_command_ only; every other member holds what the        *)
(* storage the object was built in held, which can be any value of the     *)
(* member's type.  The model keeps such a member as Unset until something  *)
(* writes it or computes with it.  A computation with an unset register    *)
(* finds in it the byte the storage held, any byte at all (held), and the  *)
(* register holds that byte from then on; the cycle accumulator is         *)
(* followed likewise (SumsOf, LeftOf), and a read of the unset step        *)
(* direction finds whatever the build makes of the byte at that place      *)
(* (ReadIsStepIn).                                                         *)
(***************************************************************************)
Unset == -1
\* the same, for the member that holds a State
UnsetState == "unset"

\* what a computation finds in a register: what was written to it, or else
\* the byte the storage held
Stored(x, held) == IF x = Unset THEN held ELSE x

\* a & b on uint8_t, bit by bit from the lowest
RECURSIVE BitAnd(_, _)
BitAnd(a, b) ==
    IF a = 0 \/ b = 0 THEN 0
    ELSE (a % 2) * (b % 2) + 2 * BitAnd(a \div 2, b \div 2)

\* a | b, a & ~b
BitOr(a, b) == a + b - BitAnd(a, b)
BitClear(a, b) == a - BitAnd(a, b)
\* a >> n
Shr(a, n) == a \div (2^n)
\* uint8_t wrap-around of track_ += +/-1
Wrap8(x) == x % 256

(***************************************************************************)
(* The controller's types (1770.hpp, not part of the excerpt).             *)
(***************************************************************************)
\* WD1770::Flag, the bits of the status register
Flag ==
    [MotorOn |-> 128, WriteProtect |-> 64, RecordType |-> 32,
     RecordNotFound |-> 16, CRCError |-> 8, LostData |-> 4,
     DataRequest |-> 2, Busy |-> 1]

\* WD1770::State
State ==
    {"Waiting", "BeginType1", "BeginType1PostSpin", "BeginType2", "BeginType3",
     "WaitForSixIndexPulses", "TestTrack", "TestDirection", "TestHead",
     "StepDelay", "TestVerify", "VerifyTrack", "TestPause", "TestWrite"}

\* the states the switch of run_for_cycles has a case for
Handled ==
    {"Waiting", "WaitForSixIndexPulses", "BeginType1", "BeginType1PostSpin",
     "TestTrack", "TestDirection", "TestHead", "StepDelay", "TestVerify",
     "BeginType2", "TestPause"}

HasFlag(status, f) == BitAnd(status, f) # 0

(***************************************************************************)
(* Storage::Disk::Drive, as far as the controller uses it: step,           *)
(* get_is_track_zero and run_for_cycles.                                   *)
(***************************************************************************)
\* step(direction): the head moves by direction, between the end stops
DriveStep(d, direction) ==
    [d EXCEPT !.head_position_ =
        IF @ + direction < 0 THEN 0
        ELSE IF @ + direction > MaxHead THEN MaxHead ELSE @ + direction]

\* get_is_track_zero()
DriveIsTrackZero(d) == d.head_position_ = 0

\* Drive::run_for_cycles(n): the disk turns by n cycles of its rotation
DriveRunForCycles(d, n) == [d EXCEPT !.rotation_ = (@ + n) % RotationLength]

(***************************************************************************)
(* WD1770::set_register and WD1770::process_index_hole.                    *)
(***************************************************************************)
\* a plausible slip: a write to the command register acts as a force
\* interrupt (the question the code leaves open at that place)
set_register_ForceInterrupt(w, address, value) ==
    CASE address % 4 = 0 ->
            [w EXCEPT !.command_ = value, !.has_command_ = TRUE,
                      !.status_ = BitClear(@, Flag.Busy),
                      !.interrupt_request_ = TRUE]
      [] address % 4 = 1 -> [w EXCEPT !.track_ = value]
      [] address % 4 = 2 -> [w EXCEPT !.sector_ = value]
      [] OTHER -> [w EXCEPT !.data_ = value]

set_register(w, address, value) ==
    CASE address % 4 = 0 -> [w EXCEPT !.command_ = value, !.has_command_ = TRUE]
      [] address % 4 = 1 -> [w EXCEPT !.track_ = value]
      [] address % 4 = 2 -> [w EXCEPT !.sector_ = value]
      [] OTHER -> [w EXCEPT !.data_ = value]

\* held: the byte the storage held, which an unset register returns
get_register(w, address, held) ==
    CASE address % 4 = 1 -> Stored(w.track_, held)
      [] address % 4 = 2 -> Stored(w.sector_, held)
      [] address % 4 = 3 -> Stored(w.data_, held)
      [] OTHER -> w.status_

\* a plausible slip: the count is not tested, any pulse ends the wait
process_index_hole_AnyPulse(w) ==
    LET w1 == [w EXCEPT !.index_hole_count_ = @ + 1]
    IN  IF w1.state_ = "WaitForSixIndexPulses"
        THEN [w1 EXCEPT !.state_ = w1.next_state]
        ELSE w1

\* a plausible slip: the wait ends one pulse early
process_index_hole_FivePulses(w) ==
    LET w1 == [w EXCEPT !.index_hole_count_ = @ + 1]
    IN  IF w1.state_ = "WaitForSixIndexPulses" /\ w1.index_hole_count_ = SixPulses - 1
        THEN [w1 EXCEPT !.state_ = w1.next_state]
        ELSE w1

process_index_hole(w) ==
    LET w1 == [w EXCEPT !.index_hole_count_ = @ + 1]
    IN  IF w1.state_ = "WaitForSixIndexPulses" /\ w1.index_hole_count_ = SixPulses
        THEN [w1 EXCEPT !.state_ = w1.next_state]
        ELSE w1

(***************************************************************************)
(* The cases of the switch in WD1770::run_for_cycles, one operator each.   *)
(***************************************************************************)
\* a plausible slip: bit 6 alone selects the family of a command with bit 7 clear
CaseWaiting_Bit6(w) ==
    IF w.has_command_
    THEN [w EXCEPT !.has_command_ = FALSE,
                   !.state_ = IF BitAnd(w.command_, 128) # 0
                              THEN (IF BitAnd(w.command_, 64) # 0
                                    THEN "BeginType3" ELSE "BeginType2")
                              ELSE (IF BitAnd(w.command_, 64) # 0
                                    THEN "BeginType2" ELSE "BeginType1")]
    ELSE w

CaseWaiting(w) ==
    IF w.has_command_
    THEN [w EXCEPT !.has_command_ = FALSE,
                   !.state_ = IF BitAnd(w.command_, 128) # 0
                              THEN (IF BitAnd(w.command_, 64) # 0
                                    THEN "BeginType3" ELSE "BeginType2")
                              ELSE "BeginType1"]
    ELSE w

CaseWaitForSixIndexPulses(w) ==
    [w EXCEPT !.status_ = BitOr(@, Flag.MotorOn)]

\* the test that sends a Type 1 command into the six-pulse wait
Type1WaitsForSpinUp(command) == BitAnd(command, 8) # 0

\* a plausible slip: the interrupt request of the last command is left raised
CaseBeginType1_KeepsInterrupt(w) ==
    LET s1 == BitOr(w.status_, Flag.Busy)
        s2 == BitClear(s1, BitOr(Flag.DataRequest, Flag.CRCError))
        w1 == [w EXCEPT !.status_ = s2, !.state_ = "BeginType1PostSpin"]
    IN  IF Type1WaitsForSpinUp(w1.command_)
        THEN [w1 EXCEPT !.next_state = w1.state_,
                        !.index_hole_count_ = 0,
                        !.state_ = "WaitForSixIndexPulses"]
        ELSE w1

CaseBeginType1(w) ==
    LET s1 == BitOr(w.status_, Flag.Busy)
        s2 == BitClear(s1, BitOr(Flag.DataRequest, Flag.CRCError))
        w1 == [w EXCEPT !.status_ = s2, !.interrupt_request_ = FALSE,
                        !.state_ = "BeginType1PostSpin"]
    IN  IF Type1WaitsForSpinUp(w1.command_)
        THEN [w1 EXCEPT !.next_state = w1.state_,
                        !.index_hole_count_ = 0,
                        !.state_ = "WaitForSixIndexPulses"]
        ELSE w1

\* a plausible slip: restore resets the track register to zero at once
PostSpinRegisters_TrackZero(w) ==
    CASE Shr(w.command_, 4) = 0 -> [w EXCEPT !.track_ = 0, !.data_ = 0]
      [] Shr(w.command_, 4) = 1 -> [w EXCEPT !.data_ = 0]
      [] Shr(w.command_, 4) \in {2, 3} -> w
      [] Shr(w.command_, 4) \in {4, 5} -> [w EXCEPT !.is_step_in_ = 1]
      [] Shr(w.command_, 4) \in {6, 7} -> [w EXCEPT !.is_step_in_ = 0]
      [] OTHER -> w

\* the inner switch(command_ >> 4) of BeginType1PostSpin
PostSpinRegisters(w) ==
    CASE Shr(w.command_, 4) = 0 -> [w EXCEPT !.track_ = 255, !.data_ = 0]
      [] Shr(w.command_, 4) = 1 -> [w EXCEPT !.data_ = 0]
      [] Shr(w.command_, 4) \in {2, 3} -> w
      [] Shr(w.command_, 4) \in {4, 5} -> [w EXCEPT !.is_step_in_ = 1]
      [] Shr(w.command_, 4) \in {6, 7} -> [w EXCEPT !.is_step_in_ = 0]
      [] OTHER -> w

\* a plausible slip: the test of the update bit the wrong way round
CaseBeginType1PostSpin_UpdateInverted(w) ==
    LET w1 == PostSpinRegisters(w)
    IN  IF Shr(w1.command_, 5) = 0
        THEN [w1 EXCEPT !.state_ = "TestTrack"]
        ELSE [w1 EXCEPT !.state_ = IF BitAnd(w1.command_, 16) # 0
                                   THEN "TestHead" ELSE "TestDirection"]

\* the case of BeginType1PostSpin
CaseBeginType1PostSpin(w) ==
    LET w1 == PostSpinRegisters(w)
    IN  IF Shr(w1.command_, 5) = 0
        THEN [w1 EXCEPT !.state_ = "TestTrack"]
        ELSE [w1 EXCEPT !.state_ = IF BitAnd(w1.command_, 16) # 0
                                   THEN "TestDirection" ELSE "TestHead"]

\* held: the bytes the storage held where the track and the data register are,
\* for the computations of one iteration with a register that is unset; the
\* pair for an iteration in which it does not matter
NoHeld == <<0, 0>>

\* the registers as the iteration's computations find them
Settled(w, held) ==
    [w EXCEPT !.track_ = Stored(@, held[1]), !.data_ = Stored(@, held[2])]

CaseTestTrack(w0, held) ==
    LET w == Settled(w0, held)
        w1 == [w EXCEPT !.data_shift_register_ = w.data_]
    IN  IF w1.track_ = w1.data_shift_register_
        THEN [w1 EXCEPT !.state_ = "TestVerify"]
        ELSE [w1 EXCEPT !.is_step_in_ = IF w1.data_shift_register_ < w1.track_
                                        THEN 1 ELSE 0,
                        !.state_ = "TestDirection"]

\* One read of the bool member is_step_in_, which the model keeps as the byte
\* it occupies: 1 is true and 0 is false once the program has written it.  The
\* byte the storage held, which need be neither, is read as whatever the build
\* makes of it at that place (seen), and not as the same at every place.
ReadIsStepIn(w, seen) == IF w.is_step_in_ \in {0, 1} THEN w.is_step_in_ = 1 ELSE seen

\* what the reads of one iteration make of such a byte: the first read of the
\* case and the second; and the reads of an iteration in which it does not matter
Reads == BOOLEAN \X BOOLEAN
NoReads == <<FALSE, FALSE>>

CaseTestDirection(w, seen, held) ==
    [w EXCEPT !.track_ = Wrap8(Stored(@, held[1])
                                 + (IF ReadIsStepIn(w, seen[1]) THEN -1 ELSE 1)),
              !.state_ = "TestHead"]

\* the test in TestHead that ends the stepping at track zero
HeadTestStops(w, d, seen) == DriveIsTrackZero(d) /\ ~ReadIsStepIn(w, seen[1])

\* TestHead is the one case that acts on the drive: the result is both objects
CaseTestHead(w, d, seen) ==
    IF HeadTestStops(w, d, seen)
    THEN [wd |-> [w EXCEPT !.track_ = 0, !.state_ = "TestVerify"], drive |-> d]
    ELSE [wd |-> [w EXCEPT !.state_ = "StepDelay", !.step_delay_count = 0],
          drive |-> DriveStep(d, IF ReadIsStepIn(w, seen[2]) THEN 1 ELSE -1)]

\* a plausible slip: the delay lasts one micro-step too long
CaseStepDelay_OneMore(w) ==
    LET w1 == IF w.step_delay_count = BitAnd(w.command_, 3) + 1
              THEN [w EXCEPT !.state_ = IF Shr(w.command_, 5) # 0
                                        THEN "TestVerify" ELSE "TestTrack"]
              ELSE w
    IN  [w1 EXCEPT !.step_delay_count = @ + 1]

CaseStepDelay(w) ==
    LET w1 == IF w.step_delay_count = BitAnd(w.command_, 3)
              THEN [w EXCEPT !.state_ = IF Shr(w.command_, 5) # 0
                                        THEN "TestVerify" ELSE "TestTrack"]
              ELSE w
    IN  [w1 EXCEPT !.step_delay_count = @ + 1]

\* a plausible slip: the command completes with Busy left set
CaseTestVerify_KeepsBusy(w) ==
    IF BitAnd(w.command_, 4) # 0
    THEN [w EXCEPT !.state_ = "VerifyTrack"]
    ELSE [w EXCEPT !.interrupt_request_ = TRUE,
                   !.state_ = "Waiting"]

\* the case of TestVerify
CaseTestVerify(w) ==
    IF BitAnd(w.command_, 4) # 0
    THEN [w EXCEPT !.state_ = "VerifyTrack"]
    ELSE [w EXCEPT !.interrupt_request_ = TRUE,
                   !.status_ = BitClear(@, Flag.Busy),
                   !.state_ = "Waiting"]

\* a plausible slip: the spin-up bit is tested the way BeginType1 tests it
CaseBeginType2_SpinUpAsType1(w) ==
    LET s1 == BitOr(w.status_, Flag.Busy)
        s2 == BitClear(s1, BitOr(BitOr(Flag.DataRequest, Flag.LostData),
                                 BitOr(Flag.RecordNotFound, 96)))
        w1 == [w EXCEPT !.status_ = s2, !.state_ = "TestPause"]
    IN  IF BitAnd(w1.command_, 8) # 0
        THEN [w1 EXCEPT !.next_state = w1.state_,
                        !.index_hole_count_ = 0,
                        !.state_ = "WaitForSixIndexPulses"]
        ELSE w1

CaseBeginType2(w) ==
    LET s1 == BitOr(w.status_, Flag.Busy)
        s2 == BitClear(s1, BitOr(BitOr(Flag.DataRequest, Flag.LostData),
                                 BitOr(Flag.RecordNotFound, 96)))
        w1 == [w EXCEPT !.status_ = s2, !.state_ = "TestPause"]
    IN  IF BitAnd(w1.command_, 8) = 0
        THEN [w1 EXCEPT !.next_state = w1.state_,
                        !.index_hole_count_ = 0,
                        !.state_ = "WaitForSixIndexPulses"]
        ELSE w1

CaseTestPause(w) == [w EXCEPT !.state_ = "TestWrite"]

\* a plausible slip: the message is printed at every occurrence
CaseDefault_PrintsAlways(w) ==
    [w EXCEPT !.messages = @ + 1, !.has_hit_error = TRUE]

\* default: the message is printed once (messages counts the lines printed),
\* and run_for_cycles returns
CaseDefault(w) ==
    [w EXCEPT !.messages = IF ~w.has_hit_error THEN @ + 1 ELSE @,
              !.has_hit_error = TRUE]

(***************************************************************************)
(* One iteration of the while loop of run_for_cycles.  returned is TRUE    *)
(* when the iteration ends in "return" instead of "continue".              *)
(***************************************************************************)
\* a plausible slip: the drive runs whether or not the motor is on
DriveCyclesPerStep_Always(w) == 1

\* the cycles the drive is run for in one iteration: one if the motor is on
DriveCyclesPerStep(w) == IF HasFlag(w.status_, Flag.MotorOn) THEN 1 ELSE 0

\* cycles -= 8; of an accumulator that is unset, and is more than 8, the
\* model knows as little afterwards
Spent(cycles) == IF cycles = Unset THEN Unset ELSE cycles - CyclesPerStep

MicroStep(w0, d0, hole, seen, held) ==
    LET w1 == [w0 EXCEPT !.cycles = Spent(@)]
        ran == DriveCyclesPerStep(w1)
        d == IF ran > 0 THEN DriveRunForCycles(d0, ran) ELSE d0
        \* Drive::run_for_cycles calls process_index_hole back if the index
        \* hole passes during the cycle; the switch reads what it left
        w == IF ran > 0 /\ hole THEN process_index_hole(w1) ELSE w1
        cont(x) == [wd |-> x, drive |-> d, returned |-> FALSE, drive_ran |-> ran]
    IN  CASE w.state_ = "Waiting" -> cont(CaseWaiting(w))
          [] w.state_ = "WaitForSixIndexPulses" -> cont(CaseWaitForSixIndexPulses(w))
          [] w.state_ = "BeginType1" -> cont(CaseBeginType1(w))
          [] w.state_ = "BeginType1PostSpin" -> cont(CaseBeginType1PostSpin(w))
          [] w.state_ = "TestTrack" -> cont(CaseTestTrack(w, held))
          [] w.state_ = "TestDirection" -> cont(CaseTestDirection(w, seen, held))
          [] w.state_ = "TestHead" ->
                LET r == CaseTestHead(w, d, seen)
                IN  [wd |-> r.wd, drive |-> r.drive, returned |-> FALSE,
                     drive_ran |-> ran]
          [] w.state_ = "StepDelay" -> cont(CaseStepDelay(w))
          [] w.state_ = "TestVerify" -> cont(CaseTestVerify(w))
          [] w.state_ = "BeginType2" -> cont(CaseBeginType2(w))
          [] w.state_ = "TestPause" -> cont(CaseTestPause(w))
          [] OTHER -> [wd |-> CaseDefault(w), drive |-> d, returned |-> TRUE,
                       drive_ran |-> ran]

\* the index holes of a call in which none passes
NoHoles == <<>>

\* the while loop of run_for_cycles, to its end or to the return in default,
\* from an accumulator whose value is known; holes tells, iteration by
\* iteration, whether the index hole passes while the drive is run (it does not
\* once the sequence is used up), seen what the reads of the unset is_step_in_
\* find (NoReads once the sequence is used up) and held what the storage held
\* where the track and data registers are (NoHeld once it is used up)
RECURSIVE run_loop(_, _, _, _, _)
run_loop(w, d, holes, seen, held) ==
    IF w.cycles <= CyclesPerStep THEN [wd |-> w, drive |-> d]
    ELSE LET r == MicroStep(w, d, holes # <<>> /\ Head(holes),
                            IF seen = <<>> THEN NoReads ELSE Head(seen),
                            IF held = <<>> THEN NoHeld ELSE Head(held))
             rest == IF holes = <<>> THEN <<>> ELSE Tail(holes)
             later == IF seen = <<>> THEN <<>> ELSE Tail(seen)
             kept == IF held = <<>> THEN <<>> ELSE Tail(held)
         IN  IF r.returned THEN [wd |-> r.wd, drive |-> r.drive]
             ELSE run_loop(r.wd, r.drive, rest, later, kept)

\* WD1770::run_for_cycles as one call; stored is what the storage held where
\* the accumulator is, for the call that finds it unset
run_for_cycles(w, d, number_of_cycles, holes, seen, held, stored) ==
    run_loop([w EXCEPT !.cycles = Stored(@, stored) + number_of_cycles],
             d, holes, seen, held)

(***************************************************************************)
(* Inputs.                                                                 *)
(***************************************************************************)
\* command bytes written to register 0 (see the table in run_for_cycles):
\* step with h, step-in; Type 2 with and without h; Type 3
Commands == {40, 64, 128, 136, 192}
\* where a command is written over or after another: seek, step, step at
\* rate 1, step-in with u, Type 2 without h
FollowCommands == {16, 32, 33, 80, 136}
\* restore at the slowest and the fastest stepping rate
RestoreCommands == {0, 3}
\* bytes written to the track, sector and data registers
RegisterInputs == {2}
\* bytes written to the track and data registers before a restore
RestoreRegisterInputs == {5}
\* the bytes the storage held where a run with several commands computes with
\* an unset track or data register
HeldInputs == {0, 2}
\* status bytes on which the status updates of a micro-step are tried
StatusInputs == {0, 10, 129, 255}
\* arguments of run_for_cycles
CycleInputs == {8}

(***************************************************************************)
(* History, kept for the properties only: the command last written while   *)
(* the controller was in Waiting with no register write since (tracking),  *)
(* the data and track registers at that write, the head steps issued and   *)
(* whether the command has completed; usteps counts the micro-steps since  *)
(* the one that dispatched the command.  Where following is switched on    *)
(* (meter.follow), and whatever is written, dispatched is the command byte *)
(* the last dispatch in Waiting acted on, busy_write tells whether the     *)
(* command register has been written with Busy set since that dispatch,   *)
(* and track_change is the change the last micro-step made to the track    *)
(* register if that micro-step was TestDirection's, and 0 otherwise.       *)
(***************************************************************************)
NoHist ==
    [tracking |-> FALSE, cmd |-> 0, target |-> 0, track0 |-> 0,
     head_steps |-> 0, done |-> FALSE, writes |-> 0,
     dispatched |-> 0, busy_write |-> FALSE, track_change |-> 0]

HistAfterWrite(address, value, counted) ==
    LET n == IF counted THEN hist.writes + 1 ELSE hist.writes
        busy_write == \/ hist.busy_write
                      \/ /\ meter.follow /\ address % 4 = 0
                         /\ HasFlag(wd.status_, Flag.Busy)
    IN  IF address % 4 = 0 /\ wd.state_ = "Waiting"
        THEN [tracking |-> TRUE, cmd |-> value, target |-> wd.data_,
              track0 |-> wd.track_, head_steps |-> 0, done |-> FALSE, writes |-> n,
              dispatched |-> hist.dispatched, busy_write |-> busy_write,
              track_change |-> hist.track_change]
        ELSE [NoHist EXCEPT !.writes = n, !.dispatched = hist.dispatched,
                            !.busy_write = busy_write,
                            !.track_change = hist.track_change]

\* step() was called in this micro-step
StepIssued(w, r) == w.state_ = "TestHead" /\ r.wd.state_ = "StepDelay"

(***************************************************************************)
(* Metering, kept for the properties only and only where it is switched on:*)
(* the accumulator after construction (start),                            *)
(* the cycles passed to run_for_cycles (fed), the iterations of its loop   *)
(* (msteps), those that ended in the default case (defaults) and the       *)
(* cycles the drive was run for (dcycles).                                 *)
(***************************************************************************)
NoMeter ==
    [on |-> FALSE, follow |-> FALSE, start |-> Unset, fed |-> 0, msteps |-> 0,
     defaults |-> 0, dcycles |-> 0]

\* the first call shows what the accumulator held, if the sum did not wrap
MeterAfterCall(n, sum) ==
    IF meter.on
    THEN [meter EXCEPT !.fed = @ + n,
                       !.start = IF wd.cycles = Unset /\ meter.fed = 0
                                    /\ sum # Unset /\ sum >= n
                                 THEN sum - n ELSE @]
    ELSE meter

MeterAfterStep(r) ==
    IF meter.on
    THEN [meter EXCEPT !.msteps = @ + 1,
                       !.defaults = IF r.returned THEN @ + 1 ELSE @,
                       !.dcycles = @ + r.drive_ran]
    ELSE meter

\* the change of the track register from old to new, as a signed byte
TrackChange(old, new) ==
    LET delta == (new - old + 256) % 256
    IN  IF delta >= 128 THEN delta - 256 ELSE delta

\* a register that was unset at the write of the command followed, and is
\* still, held what the iteration that computes with it finds
HistAfterStep(r, held) ==
    LET h == IF ~meter.follow THEN hist
             ELSE [hist EXCEPT
                     !.dispatched = IF wd.state_ = "Waiting" /\ wd.has_command_
                                    THEN wd.command_ ELSE @,
                     !.busy_write = IF wd.state_ = "Waiting" /\ wd.has_command_
                                    THEN FALSE ELSE @,
                     !.track_change = IF wd.state_ = "TestDirection"
                                      THEN TrackChange(Stored(wd.track_, held[1]),
                                                       r.wd.track_)
                                      ELSE 0]
    IN  IF hist.tracking /\ ~hist.done
        THEN [h EXCEPT !.head_steps = IF StepIssued(wd, r) THEN @ + 1 ELSE @,
                       !.done = (wd.state_ = "TestVerify" /\ r.wd.state_ = "Waiting"),
                       !.track0 = IF @ = Unset /\ wd.track_ = Unset
                                     /\ wd.state_ \in {"TestTrack", "TestDirection"}
                                  THEN held[1] ELSE @,
                       !.target = IF @ = Unset /\ wd.data_ = Unset
                                     /\ wd.state_ = "TestTrack"
                                  THEN held[2] ELSE @]
        ELSE h

(***************************************************************************)
(* The Amiga's bus handler, ConcreteMachine::perform_bus_operation         *)
(* (src/Machines/Amiga/Amiga.cpp), and the parts of the machine it drives. *)
(* Chipset.hpp declares the chipset's interrupt fields and operations;     *)
(* their bodies (Chipset.cpp), the memory map, the CIAs and the 68000's    *)
(* Microcycle are not part of the excerpt and follow the specification:    *)
(* the chipset's time is a position in a frame of FrameLength half cycles, *)
(* the processor may use chip memory once every SlotPeriod half cycles,    *)
(* and each CIA is reduced to one register.                                *)
(***************************************************************************)
\* the processor's chip-memory slots come once every SlotPeriod half cycles
SlotPeriod == 4
\* a vertical blank is requested once every FrameLength half cycles
FrameLength == 8

\* Microcycle operation flags are sets of names.  The cycles offered to the
\* handler: ones that expose no address, ones that announce an address, reads
\* (a word, a byte, an interrupt acknowledge that also announces its address)
\* and writes (a word, a byte)
IdleOperations == { {}, {"Reset"} }
AnnounceOperations == { {"NewAddress"} }
ReadOperations ==
    { {"SameAddress", "SelectWord", "Read"}, {"SameAddress", "SelectByte", "Read"},
      {"InterruptAcknowledge", "NewAddress", "SelectByte", "Read"} }
WriteOperations == { {"SameAddress", "SelectWord"}, {"SameAddress", "SelectByte"} }

\* chip RAM under the ROM overlay and above it, both CIAs at once, INTENA,
\* INTREQ, INTREQR, an address past the chip-register window and an unmapped
\* address
BusAddresses ==
    { \H000100, \H080100, \Hbfc001, \Hdff09a, \Hdff09c, \Hdff01e, \Hdff29a,
      \Hc00000 }

\* the values written: one that sets master enable, vertical blank and ports
\* and, for the interrupt registers (also past the window, where the register
\* number repeats), one that clears master enable and vertical blank
ValuesWritten(address) ==
    IF address \in { \Hdff09a, \Hdff09c, \Hdff29a }
    THEN { \Hc028, \H4020 } ELSE { \Hc028 }

\* the lengths of a cycle, in half cycles: of a cycle without data strobes,
\* and of a read or write
BusLengths == {2, 4}
StrobedLengths == {2}

Cycles ==
    UNION {
      [operation : IdleOperations, address : {0}, length : BusLengths, value : {0}],
      [operation : AnnounceOperations, address : BusAddresses,
       length : BusLengths, value : {0}],
      [operation : ReadOperations, address : BusAddresses,
       length : StrobedLengths, value : {0}],
      UNION { [operation : WriteOperations, address : {a}, length : StrobedLengths,
               value : ValuesWritten(a)] : a \in BusAddresses } }

\* the words of memory that are modelled: one of chip RAM, one of the ROM
MemoryAddresses == { \H080100, \Hfc0000 }

\* Chipset::update_interrupts: the level of the highest enabled request
InterruptLevel(enable, requests) ==
    LET enabled_requests == BitAnd(BitAnd(enable, requests), \H3fff)
    IN  IF enabled_requests = 0 \/ BitAnd(enable, \H4000) = 0 THEN 0
        ELSE IF BitAnd(enabled_requests, \H2000) # 0 THEN 6
        ELSE IF BitAnd(enabled_requests, \H1800) # 0 THEN 5
        ELSE IF BitAnd(enabled_requests, \H0780) # 0 THEN 4
        ELSE IF BitAnd(enabled_requests, \H0070) # 0 THEN 3
        ELSE IF BitAnd(enabled_requests, \H0008) # 0 THEN 2
        ELSE 1

\* a plausible slip: the level is left as it was
update_interrupts_Never(c) == c

update_interrupts(c) ==
    [c EXCEPT !.interrupt_level_ =
                InterruptLevel(c.interrupt_enable_, c.interrupt_requests_)]

\* Chipset::get_interrupt_level
get_interrupt_level(c) == c.interrupt_level_

\* Chipset::time_until_cpu_slot
time_until_cpu_slot(c) == (SlotPeriod - (c.x_ % SlotPeriod)) % SlotPeriod

\* Chipset::run_for: the position advances by exactly the duration; passing
\* the end of the frame requests the vertical-blank interrupt.  elapsed sums
\* the durations of the advances since the handler was entered.
run_for(c, duration) ==
    LET c1 == [c EXCEPT !.x_ = (@ + duration) % FrameLength,
                        !.elapsed = @ + duration]
    IN  IF c.x_ + duration >= FrameLength
        THEN update_interrupts([c1 EXCEPT !.interrupt_requests_ = BitOr(@, \H0020)])
        ELSE c1

\* Chipset::run_until_cpu_slot: advances up to the processor's next slot and
\* reports the duration of that advance
run_until_cpu_slot(c) ==
    [chipset |-> run_for(c, time_until_cpu_slot(c)),
     duration |-> time_until_cpu_slot(c)]

\* a write to INTENA or INTREQ: bit 15 selects set or clear of the other bits
ApplySetClear(target, value) ==
    IF BitAnd(value, \H8000) # 0
    THEN BitOr(target, BitAnd(value, \H7fff))
    ELSE BitClear(target, value)

\* Chipset::perform: INTENAR and INTREQR are read, INTENA and INTREQ are
\* written and the level recomputed; other registers are left out
perform(c, cycle) ==
    LET reg == (cycle.address % 512) - (cycle.address % 2)
    IN  IF "Read" \in cycle.operation
        THEN [chipset |-> c,
              value |-> IF reg = \H01c THEN c.interrupt_enable_
                        ELSE IF reg = \H01e THEN c.interrupt_requests_
                        ELSE \Hffff]
        ELSE [chipset |->
                IF reg = \H09a
                THEN update_interrupts(
                       [c EXCEPT !.interrupt_enable_ = ApplySetClear(@, cycle.value)])
                ELSE IF reg = \H09c
                THEN update_interrupts(
                       [c EXCEPT !.interrupt_requests_ = ApplySetClear(@, cycle.value)])
                ELSE c,
              value |-> cycle.value]

\* MemoryMap: regions[address >> 18].read_write_mask; chip RAM in the first
\* eight regions, the ROM over the first two while the overlay is on, the
\* ROM in the last region
RegionMask(mem, address) ==
    LET region == Shr(address, 18)
    IN  IF region < 2 /\ mem.overlay THEN "read"
        ELSE IF region < 8 THEN "read_write"
        ELSE IF region = 63 THEN "read"
        ELSE "none"

\* the modelled word an address falls in (the ROM's, under the overlay)
WordAt(mem, address) ==
    IF Shr(address, 18) < 2 /\ mem.overlay THEN \Hfc0000
    ELSE address - (address % 2)

\* Microcycle::apply: a read takes the word or, for a byte, its upper half at
\* an even address and its lower half at an odd one; a write stores likewise
\* where the mask permits
apply(mem, address, mask, cycle) ==
    LET a == WordAt(mem, address)
        word == IF a \in MemoryAddresses THEN mem.contents[a] ELSE 0
        byte == "SelectByte" \in cycle.operation
        upper == address % 2 = 0
        stored == IF ~byte THEN cycle.value
                  ELSE IF upper THEN (cycle.value % 256) * 256 + (word % 256)
                  ELSE (word \div 256) * 256 + (cycle.value % 256)
    IN  IF "Read" \in cycle.operation
        THEN [mem |-> mem,
              value |-> IF ~byte THEN word
                        ELSE IF upper THEN word \div 256 ELSE word % 256]
        ELSE [mem |-> IF mask = "read_write" /\ a \in MemoryAddresses
                      THEN [mem EXCEPT !.contents[a] = stored] ELSE mem,
              value |-> cycle.value]

\* Microcycle::value8_low and value8_high: the low and the high byte of the
\* data value of a write
value8_low(cycle) == cycle.value % 256
value8_high(cycle) == (cycle.value \div 256) % 256

\* Microcycle::host_endian_byte_address, to the 24 bits of the address bus
host_endian_byte_address(cycle) == cycle.address % (2^24)

\* Chipset.hpp: the member initialisers, and a position at the start of a frame
ChipsetInit ==
    [interrupt_enable_ |-> 0, interrupt_requests_ |-> 0, interrupt_level_ |-> 0,
     x_ |-> 0, elapsed |-> 0]

\* a plausible slip: every cycle that names a new address waits for a slot
NeedsCpuSlot_AnyAddress(cycle) == "NewAddress" \in cycle.operation

\* "a quick advance check for Chip RAM access"
NeedsCpuSlot(cycle) ==
    "NewAddress" \in cycle.operation /\ cycle.address < \H200000

\* a plausible slip: the level is not passed on
SampleInterruptLevel_Never(cpu, c) == cpu

\* mc68000_.set_interrupt_level(chipset_.get_interrupt_level())
SampleInterruptLevel(cpu, c) ==
    [cpu EXCEPT !.interrupt_level = get_interrupt_level(c)]

\* a plausible slip: the block compared with is the one above the CIAs
InCIASpace_BlockAbove(address) == Shr(address, 21) % 8 = 6

\* (address & 0xe0'0000) == 0xa0'0000: the top three of the 24 bits are 101
InCIASpace(address) == Shr(address, 21) % 8 = 5

\* a plausible slip: the window has no upper end
InChipRegisterWindow_NoUpperEnd(address) == address >= \Hdff000

InChipRegisterWindow(address) == address >= \Hdff000 /\ address <= \Hdff1be

\* a plausible slip: the byte lanes follow the manual's listing, CIA A on the
\* high byte and CIA B on the low one
CIAAccess_LanesSwapped(m, address, cycle) ==
    LET a == Shr(address, 12) % 2 = 0
        b == Shr(address, 13) % 2 = 0
    IN  IF "Read" \in cycle.operation
        THEN LET r0 == \Hffff
                 r1 == IF a THEN m.cia_a * 256 + (r0 % 256) ELSE r0
                 r2 == IF b THEN (r1 \div 256) * 256 + m.cia_b ELSE r1
             IN  [m EXCEPT !.last.value = r2]
        ELSE [m EXCEPT !.cia_a = IF a THEN value8_high(cycle) ELSE @,
                       !.cia_b = IF b THEN value8_low(cycle) ELSE @]

\* the CIA branch: reg = address >> 8 picks the register (one is modelled)
CIAAccess(m, address, cycle) ==
    LET a == Shr(address, 12) % 2 = 0
        b == Shr(address, 13) % 2 = 0
    IN  IF "Read" \in cycle.operation
        THEN LET r0 == \Hffff
                 r1 == IF a THEN (r0 \div 256) * 256 + m.cia_a ELSE r0
                 r2 == IF b THEN m.cia_b * 256 + (r1 % 256) ELSE r1
             IN  [m EXCEPT !.last.value = r2]
        ELSE [m EXCEPT !.cia_a = IF a THEN value8_low(cycle) ELSE @,
                       !.cia_b = IF b THEN value8_high(cycle) ELSE @]

\* ConcreteMachine::perform_bus_operation.  last keeps, for the properties,
\* the cycle served, the delay returned, the cycle's value on return, the
\* chipset as it was on entry and after the advance, and the exit taken.
perform_bus_operation(m, cycle) ==
    LET c0 == [m.chipset EXCEPT !.elapsed = 0]
        slot == NeedsCpuSlot(cycle)
        until == run_until_cpu_slot(c0)
        access_delay == IF slot THEN until.duration ELSE 0
        c1 == IF slot THEN until.chipset ELSE c0
        total_length == cycle.length + access_delay
        c2 == run_for(c1, total_length)
        mem == IF "Reset" \in cycle.operation
               THEN [m.memory EXCEPT !.overlay = TRUE] ELSE m.memory
        m1 == [m EXCEPT !.chipset = c2,
                        !.cpu = SampleInterruptLevel(@, c2),
                        !.memory = mem,
                        !.last = [cycle |-> cycle, delay |-> access_delay,
                                  value |-> cycle.value, entry |-> c0,
                                  advanced |-> c2, exit |-> "none"]]
        address == host_endian_byte_address(cycle)
        m2 == [m1 EXCEPT !.cpu.is_peripheral_address = InCIASpace(address)]
        mask == RegionMask(mem, address)
    IN  IF "InterruptAcknowledge" \in cycle.operation
        THEN [m1 EXCEPT !.cpu.is_peripheral_address = TRUE,
                        !.last.exit = "acknowledge"]
        ELSE IF cycle.operation \cap {"NewAddress", "SameAddress"} = {}
        THEN [m1 EXCEPT !.last.exit = "no_address"]
        ELSE IF mask = "none"
        THEN IF cycle.operation \cap {"SelectByte", "SelectWord"} = {}
             THEN [m2 EXCEPT !.last.exit = "no_strobe"]
             ELSE IF InCIASpace(address)
             THEN [CIAAccess(m2, address, cycle) EXCEPT !.last.exit = "cia"]
             ELSE IF InChipRegisterWindow(address)
             THEN LET r == perform(c2, cycle)
                  IN  [m2 EXCEPT !.chipset = r.chipset, !.last.value = r.value,
                                 !.last.exit = "chipset"]
             ELSE [m2 EXCEPT !.last.value =
                               IF "Read" \in cycle.operation THEN \Hffff ELSE @,
                             !.last.exit = "open_bus"]
        ELSE LET r == apply(mem, address, mask, cycle)
             IN  [m2 EXCEPT !.memory = r.mem, !.last.value = r.value,
                            !.last.exit = "memory"]

NoCycle == [operation |-> {}, address |-> 0, length |-> 0, value |-> 0]

\* the machine after construction: the memory map starts with the ROM overlaid
AmigaInit ==
    [chipset |-> ChipsetInit,
     memory |-> [overlay |-> TRUE,
                 contents |-> [a \in MemoryAddresses |->
                                 IF a = \Hfc0000 THEN \H1111 ELSE 0]],
     cia_a |-> 0, cia_b |-> 0,
     cpu |-> [interrupt_level |-> 0, is_peripheral_address |-> FALSE],
     last |-> [cycle |-> NoCycle, delay |-> 0, value |-> 0,
               entry |-> ChipsetInit, advanced |-> ChipsetInit, exit |-> "none"]]

(***************************************************************************)
(* Construction of the Amiga: ConcreteMachine::ConcreteMachine.  The ROM    *)
(* fetcher and ROM::Request::validate are not part of the excerpt: a fetch *)
(* yields no ROM, a ROM that is not the Kickstart 1.3 image, or the image, *)
(* and only the last validates.  build is what the caller of               *)
(* Machine::Amiga is left with.                                            *)
(***************************************************************************)
PALClockRate == 7093790

RomFetches == {"none", "wrong", "kickstart13"}

validate(roms) == roms = "kickstart13"

\* Analyser::Static::Media, as far as the machines here read it
NoMedia ==
    [disks |-> <<>>, tapes |-> <<>>, cartridges |-> <<>>,
     mass_storage_devices |-> <<>>]

\* before construction: nothing fetched, packed, clocked or inserted.  roms and
\* target are the ROM fetcher's result and the media of the target given.
Unbuilt ==
    [status |-> "unbuilt", error |-> "none", roms |-> "none", target |-> NoMedia,
     kickstart |-> "empty", clock_rate |-> 0, disks |-> <<>>]

\* Chipset::insert(disks) (Chipset.cpp, not part of the excerpt): the disks
\* given are the disks in the drives
insert(b, disks) == [b EXCEPT !.disks = disks]

\* ConcreteMachine::insert_media: the disks of the media go to the chipset
insert_media(b, media) == insert(b, media.disks)

\* a plausible slip: the ROM is packed into memory before it is validated
ConcreteMachine_PackBeforeValidate(roms, media) ==
    LET given == [Unbuilt EXCEPT !.roms = roms, !.target = media]
        packed == [given EXCEPT !.kickstart = roms]
    IN  IF ~validate(roms)
        THEN [packed EXCEPT !.status = "failed", !.error = "MissingROMs"]
        ELSE [insert_media([packed EXCEPT !.clock_rate = PALClockRate], media)
                 EXCEPT !.status = "built"]

\* the constructor's body: validate or throw, pack, set the clock rate,
\* insert the media
ConcreteMachine(roms, media) ==
    LET given == [Unbuilt EXCEPT !.roms = roms, !.target = media]
    IN
    IF ~validate(roms)
    THEN [given EXCEPT !.status = "failed", !.error = "MissingROMs"]
    ELSE LET packed == [given EXCEPT !.kickstart = roms]
             clocked == [packed EXCEPT !.clock_rate = PALClockRate]
             inserted == insert_media(clocked, media)
         IN  [inserted EXCEPT !.status = "built"]

\* the targets Machine::Amiga may be handed: an Analyser::Static::Amiga::Target
\* or a target of another machine
TargetKinds == {"amiga", "other"}

\* the media a target may carry
MachineMedia ==
    [disks : {<<>>, <<"disk1">>, <<"disk1", "disk2">>},
     tapes : {<<>>}, cartridges : {<<>>},
     mass_storage_devices : {<<>>, <<"hd1">>}]

\* Machine::Amiga, as the set of what the caller may be left with.  For a
\* target of another machine dynamic_cast gives a null pointer, which is
\* dereferenced unchecked for the constructor's reference: the constructor
\* throws before it reads the target if the ROMs do not validate, and its read
\* of target.media is otherwise undefined: the process ends there (ROM
\* packed, clock rate set, nothing inserted), or any media is read.
Machine_Amiga(kind, roms, media) ==
    IF kind = "amiga" \/ ~validate(roms)
    THEN {ConcreteMachine(roms, media)}
    ELSE LET reached == ConcreteMachine(roms, NoMedia)
         IN  {[reached EXCEPT !.status = "crashed", !.target = media]}
             \cup {[ConcreteMachine(roms, m) EXCEPT !.target = media] :
                       m \in MachineMedia}

(***************************************************************************)
(* InstructionSets::PowerPC::Instruction (Instruction.hpp): the operation  *)
(* tag, the supervisor flag and the raw 32-bit word, whose fields are      *)
(* decoded on demand by the accessors.  The word is kept as its two 16-bit *)
(* halves, hi and lo; bit 0 is the least significant bit of lo.            *)
(***************************************************************************)
\* bit k of the word
OpcodeBit(opcode, k) ==
    IF k < 16 THEN (opcode.lo \div (2^k)) % 2
    ELSE (opcode.hi \div (2^(k - 16))) % 2

\* (opcode >> shift) & (2^width - 1)
RECURSIVE OpcodeField(_, _, _)
OpcodeField(opcode, shift, width) ==
    IF width = 0 THEN 0
    ELSE OpcodeBit(opcode, shift) + 2 * OpcodeField(opcode, shift + 1, width - 1)

\* int16_t(x) of a value in 0..65535
Int16(x) == IF x >= 32768 THEN x - 65536 ELSE x

uimm(i) == i.opcode.lo
simm(i) == Int16(i.opcode.lo)
d_(i) == Int16(i.opcode.lo)
ds(i) == Int16(i.opcode.lo - (i.opcode.lo % 4))
imm(i) == OpcodeField(i.opcode, 12, 4)
to(i) == OpcodeField(i.opcode, 21, 5)
rA(i) == OpcodeField(i.opcode, 16, 5)
rB(i) == OpcodeField(i.opcode, 11, 5)
rD(i) == OpcodeField(i.opcode, 21, 5)
rS(i) == OpcodeField(i.opcode, 21, 5)
frA(i) == OpcodeField(i.opcode, 16, 5)
frB(i) == OpcodeField(i.opcode, 11, 5)
frC(i) == OpcodeField(i.opcode, 6, 5)
frS(i) == OpcodeField(i.opcode, 21, 5)
frD(i) == OpcodeField(i.opcode, 21, 5)
bo(i) == OpcodeField(i.opcode, 21, 5)

\* a plausible slip: the mask keeps five bits, as the neighbouring fields do
branch_options_FiveBits(i) == OpcodeField(i.opcode, 22, 5)

branch_options(i) == OpcodeField(i.opcode, 22, 4)
\* opcode & 0x200000
branch_prediction_hint(i) == OpcodeBit(i.opcode, 21) * (2^21)
bi(i) == OpcodeField(i.opcode, 16, 5)
bd(i) == Int16(i.opcode.lo - (i.opcode.lo % 4))
mb(i) == OpcodeField(i.opcode, 6, 5)
me(i) == OpcodeField(i.opcode, 1, 5)
crbA(i) == OpcodeField(i.opcode, 16, 5)
crbB(i) == OpcodeField(i.opcode, 11, 5)
crbD(i) == OpcodeField(i.opcode, 21, 5)
crfD(i) == OpcodeField(i.opcode, 23, 3)
crfS(i) == OpcodeField(i.opcode, 18, 3)
crm(i) == OpcodeField(i.opcode, 12, 8)
fm(i) == OpcodeField(i.opcode, 17, 8)
nb(i) == OpcodeField(i.opcode, 11, 5)
sh(i) == OpcodeField(i.opcode, 11, 5)

\* a plausible slip: the segment registers are given to supervisor code only
sr_SupervisorOnly(i) ==
    IF i.is_supervisor THEN OpcodeField(i.opcode, 16, 4) ELSE 0

sr(i) == OpcodeField(i.opcode, 16, 4)

\* a plausible slip: the field is not sign-extended
li_NoSignExtension(i) ==
    (i.opcode.hi % 1024) * 65536 + i.opcode.lo - (i.opcode.lo % 4)

\* int32_t((opcode & 0x03fffffc) | extensions[(opcode >> 25) & 1]): the 26-bit
\* field without its two low bits, less 2^26 if its top bit is set
li(i) ==
    (i.opcode.hi % 1024) * 65536 + i.opcode.lo - (i.opcode.lo % 4)
        - OpcodeBit(i.opcode, 25) * (2^26)

aa(i) == OpcodeBit(i.opcode, 1) * 2
lk(i) == OpcodeBit(i.opcode, 0)
rc(i) == OpcodeBit(i.opcode, 0)
l_(i) == OpcodeBit(i.opcode, 21) * (2^21)
oe(i) == OpcodeBit(i.opcode, 10) * 1024

\* the accessors by name
Accessors ==
    {"uimm", "simm", "d", "ds", "imm", "to", "rA", "rB", "rD", "rS", "frA",
     "frB", "frC", "frS", "frD", "bo", "branch_options",
     "branch_prediction_hint", "bi", "bd", "mb", "me", "crbA", "crbB", "crbD",
     "crfD", "crfS", "crm", "fm", "nb", "sh", "sr", "li", "aa", "lk", "rc",
     "l", "oe"}

Accessor(f, i) ==
    CASE f = "uimm" -> uimm(i) [] f = "simm" -> simm(i) [] f = "d" -> d_(i)
      [] f = "ds" -> ds(i) [] f = "imm" -> imm(i) [] f = "to" -> to(i)
      [] f = "rA" -> rA(i) [] f = "rB" -> rB(i) [] f = "rD" -> rD(i)
      [] f = "rS" -> rS(i) [] f = "frA" -> frA(i) [] f = "frB" -> frB(i)
      [] f = "frC" -> frC(i) [] f = "frS" -> frS(i) [] f = "frD" -> frD(i)
      [] f = "bo" -> bo(i) [] f = "branch_options" -> branch_options(i)
      [] f = "branch_prediction_hint" -> branch_prediction_hint(i)
      [] f = "bi" -> bi(i) [] f = "bd" -> bd(i) [] f = "mb" -> mb(i)
      [] f = "me" -> me(i) [] f = "crbA" -> crbA(i) [] f = "crbB" -> crbB(i)
      [] f = "crbD" -> crbD(i) [] f = "crfD" -> crfD(i) [] f = "crfS" -> crfS(i)
      [] f = "crm" -> crm(i) [] f = "fm" -> fm(i) [] f = "nb" -> nb(i)
      [] f = "sh" -> sh(i) [] f = "sr" -> sr(i) [] f = "li" -> li(i)
      [] f = "aa" -> aa(i) [] f = "lk" -> lk(i) [] f = "rc" -> rc(i)
      [] f = "l" -> l_(i) [] OTHER -> oe(i)

\* Instruction(operation, opcode, is_supervisor)
Instruction(operation, opcode, is_supervisor) ==
    [operation |-> operation, is_supervisor |-> is_supervisor, opcode |-> opcode]

\* the raw words decoded: every value of bits 21 to 26, with all other bits
\* clear and with all other bits set
OpcodeInputs ==
    { [hi |-> k * 32 + r * \Hf81f, lo |-> r * \Hffff] : k \in 0..63, r \in {0, 1} }

OperationInputs == {"Undefined", "bcx"}

\* two instructions, a and b, and the last accessor called on both, with the
\* values it gave; at rest, two default-constructed instructions
PPCInit ==
    [a |-> Instruction("Undefined", [hi |-> 0, lo |-> 0], FALSE),
     b |-> Instruction("Undefined", [hi |-> 0, lo |-> 0], FALSE),
     field |-> "none", value_a |-> 0, value_b |-> 0]

(***************************************************************************)
(* Analyser::Static::Macintosh::GetTargets (StaticAnalyser.cpp): the       *)
(* list of targets for a bundle of media, a file name and the platforms    *)
(* the caller thinks possible.                                             *)
(***************************************************************************)
\* a plausible slip: only disks are looked at
GetTargets_DisksOnly(media, file_name, potential_platforms) ==
    IF media.disks = <<>> THEN <<>>
    ELSE <<[machine |-> "Macintosh", media |-> media]>>

GetTargets(media, file_name, potential_platforms) ==
    IF media.disks = <<>> /\ media.mass_storage_devices = <<>> THEN <<>>
    ELSE <<[machine |-> "Macintosh", media |-> media]>>

MediaInputs ==
    [disks : {<<>>, <<"disk1">>, <<"disk1", "disk2">>},
     tapes : {<<>>, <<"tape1">>},
     cartridges : {<<>>, <<"cartridge1">>},
     mass_storage_devices : {<<>>, <<"hd1">>}]

FileNameInputs == {"", "system.dsk", "game.adf"}
\* TargetPlatform bit sets: none, one platform, all of them
PlatformInputs == {0, 1, 2}

\* the arguments and the result of the last call
MacInit ==
    [called |-> FALSE, media |-> NoMedia, file_name |-> "",
     potential_platforms |-> 0, targets |-> <<>>]

(***************************************************************************)
(* The state after construction: WD1770::WD1770 sets state_, status_ and   *)
(* has_command_ and leaves every other member as the storage holds it      *)
(* (Unset).  The message of the default case is a static of the function,  *)
(* false when the program starts.                                          *)
(***************************************************************************)
WDInit ==
    /\ wd = [state_ |-> "Waiting", status_ |-> 0, has_command_ |-> FALSE,
             command_ |-> Unset, track_ |-> Unset, sector_ |-> Unset,
             data_ |-> Unset, cycles |-> Unset, is_step_in_ |-> Unset,
             index_hole_count_ |-> Unset, next_state |-> UnsetState,
             step_delay_count |-> Unset, data_shift_register_ |-> Unset,
             interrupt_request_ |-> FALSE, has_hit_error |-> FALSE,
             messages |-> 0]
    /\ \E h \in 0..MaxHead : drive = [head_position_ |-> h, rotation_ |-> 0]
    /\ pc = "idle"
    /\ hist = NoHist
    /\ usteps = 0
    /\ bus = 0

\* the other machines and tools of the repository, at rest
OthersInit == ppc = PPCInit /\ mac = MacInit

Init ==
    /\ WDInit /\ meter = NoMeter
    /\ amiga = AmigaInit /\ build = ConcreteMachine("kickstart13", NoMedia)
    /\ OthersInit

(***************************************************************************)
(* Actions.                                                                *)
(***************************************************************************)
SetRegister(address, value, counted) ==
    /\ pc = "idle"
    /\ wd' = set_register(wd, address, value)
    /\ hist' = HistAfterWrite(address, value, counted)
    /\ usteps' = 0
    /\ UNCHANGED <<drive, pc, meter, bus, amiga, build, ppc, mac>>

\* get_register returns the register and changes nothing: of an unset
\* register the bus carries the byte the storage held, which stays as unknown
GetRegister(address) ==
    /\ pc = "idle"
    /\ bus' = get_register(wd, address, Unset)
    /\ UNCHANGED <<wd, drive, pc, hist, usteps, meter, amiga, build, ppc, mac>>

\* cycles += number_of_cycles: the sums that can come of it.  An unset
\* accumulator holds any 32-bit value, and the sum, which wraps at 2^32, is any
\* 32-bit value too: one of 0..8, with which the loop is not entered; the sum
\* of n and one of 0..MaxStored, a storage the model follows as the number it
\* held; or any other, more than 8, which the model keeps as Unset.
SumsOf(w, n) ==
    IF w.cycles # Unset THEN {w.cycles + n}
    ELSE {Unset} \cup 0..CyclesPerStep \cup {stored + n : stored \in 0..MaxStored}

\* run_for_cycles up to the first test of its while loop
RunForCycles(n, sum) ==
    /\ pc = "idle"
    /\ wd.step_delay_count < MaxStepDelay
    /\ sum \in SumsOf(wd, n)
    /\ wd' = [wd EXCEPT !.cycles = sum]
    /\ pc' = IF sum = Unset \/ sum > CyclesPerStep THEN "loop" ELSE "idle"
    /\ meter' = MeterAfterCall(n, sum)
    /\ UNCHANGED <<drive, hist, usteps, bus, amiga, build, ppc, mac>>

\* the outcomes of the reads of is_step_in_ in an iteration entered in the
\* state of w: open where the member holds the byte the storage held and the
\* case reads it (TestDirection once, TestHead up to twice)
ReadsOf(w) ==
    IF w.is_step_in_ \in {0, 1} \/ w.state_ \notin {"TestDirection", "TestHead"}
    THEN {NoReads}
    ELSE IF w.state_ = "TestDirection" THEN BOOLEAN \X {FALSE}
    ELSE Reads

\* what the storage held where the registers are that an iteration entered in
\* the state of w computes with while they are unset: the track register in
\* TestTrack and TestDirection, the data register in TestTrack; among tracks
\* and datas
HeldAmong(w, tracks, datas) ==
    (IF w.state_ \in {"TestTrack", "TestDirection"} /\ w.track_ = Unset
     THEN tracks ELSE {0})
    \X (IF w.state_ = "TestTrack" /\ w.data_ = Unset THEN datas ELSE {0})

\* any byte
HeldOf(w) == HeldAmong(w, Byte, Byte)

\* what is left in the accumulator when an iteration ends: of one entered
\* unset, either more than 8 still (it stays Unset and the loop goes on) or one
\* of 1..8, which ends the loop; the return in default leaves it untested
LeftOf(w) ==
    IF w.cycles = Unset /\ w.state_ \in Handled
    THEN {Unset} \cup 1..CyclesPerStep ELSE {Unset}

\* one iteration of the while loop, up to the next test of the loop or the
\* return; hole: the index hole passes while the drive is run, which it is only
\* with the motor on
LoopStep(count, hole, seen, held, left) ==
    /\ pc = "loop"
    /\ wd.step_delay_count < MaxStepDelay
    /\ hole => (HasFlag(wd.status_, Flag.MotorOn) /\ wd.index_hole_count_ < MaxIndexHoles)
    /\ seen \in ReadsOf(wd)
    /\ held \in HeldOf(wd)
    /\ left \in LeftOf(wd)
    /\ LET r == MicroStep(wd, drive, hole, seen, held)
           after == IF r.wd.cycles = Unset THEN [r.wd EXCEPT !.cycles = left]
                    ELSE r.wd
       IN  /\ wd' = after
           /\ drive' = r.drive
           /\ pc' = IF r.returned
                        \/ (after.cycles # Unset /\ after.cycles <= CyclesPerStep)
                    THEN "idle" ELSE "loop"
           /\ hist' = HistAfterStep(r, held)
           /\ usteps' = IF count /\ hist.tracking /\ ~hist.done /\ ~r.returned
                        THEN usteps + 1 ELSE usteps
           /\ meter' = MeterAfterStep(r)
           /\ UNCHANGED <<bus, amiga, build, ppc, mac>>

\* the iterations of the loop, with any outcome of what they find unset
Iterate(count) ==
    \E hole \in BOOLEAN, seen \in ReadsOf(wd), held \in HeldOf(wd),
       left \in LeftOf(wd) : LoopStep(count, hole, seen, held, left)

\* the same, where the storage held one of bytes in the registers
IterateAmong(bytes) ==
    \E hole \in BOOLEAN, seen \in ReadsOf(wd),
       held \in HeldAmong(wd, bytes, bytes), left \in LeftOf(wd) :
          LoopStep(FALSE, hole, seen, held, left)

\* the calls of run_for_cycles with n cycles, whatever sum the addition gives
Call(n) == \E sum \in SumsOf(wd, n) : RunForCycles(n, sum)

Next ==
    \/ \E a \in 0..3 :
         \E v \in (IF a = 0 THEN Commands ELSE RegisterInputs) :
            hist.writes < MaxWrites /\ SetRegister(a, v, TRUE)
    \/ \E n \in CycleInputs : Call(n)
    \/ Iterate(FALSE)

Spec == Init /\ [][Next]_vars

\* The same operations, with the dispatched command and the changes of the
\* track register followed.
InitFollow ==
    /\ WDInit /\ meter = [NoMeter EXCEPT !.follow = TRUE]
    /\ amiga = AmigaInit /\ build = ConcreteMachine("kickstart13", NoMedia)
    /\ OthersInit

NextFollow ==
    \/ \E a \in 0..3 :
         \E v \in (IF a = 0 THEN FollowCommands ELSE RegisterInputs) :
            hist.writes < MaxFollowWrites /\ SetRegister(a, v, TRUE)
    \/ \E n \in CycleInputs : Call(n)
    \/ IterateAmong(HeldInputs)

SpecFollow == InitFollow /\ [][NextFollow]_vars

\* A restore command written once, to a controller in Waiting, after any writes
\* to the track and data registers, and no register write after it.
NextRestore ==
    \/ \E a \in {1, 3} :
         \E v \in RestoreRegisterInputs : ~hist.tracking /\ SetRegister(a, v, FALSE)
    \/ \E c \in RestoreCommands : ~hist.tracking /\ SetRegister(0, c, FALSE)
    \/ \E n \in CycleInputs : Call(n)
    \/ Iterate(TRUE)

SpecRestore == Init /\ [][NextRestore]_vars

\* the commands of such a run: seek, also with verify and with h; step, also
\* with verify and with h; step-in with u; Type 2 with and without h; Type 3
LiveCommands == {16, 20, 24, 32, 36, 40, 80, 128, 136, 192}

\* the host calls run_for_cycles for as long as the machine runs
LiveTick ==
    \/ \E n \in CycleInputs : Call(n)
    \/ IterateAmong(HeldInputs)

\* One command written to a controller in Waiting, under ticks and index pulses
\* that keep coming.
NextLive ==
    \/ \E c \in LiveCommands : ~hist.tracking /\ SetRegister(0, c, FALSE)
    \/ LiveTick

\* an iteration during which the index hole passes: the disk keeps turning
\* while the motor is on
HoleStep ==
    \E seen \in ReadsOf(wd), held \in HeldAmong(wd, HeldInputs, HeldInputs),
       left \in LeftOf(wd) :
          LoopStep(FALSE, TRUE, seen, held, left)

SpecLive ==
    Init /\ [][NextLive]_vars /\ WF_vars(LiveTick) /\ SF_vars(HoleStep)

\* the step family without verify: step, also with h and with u; step-in and
\* step-out, without and with u
StepCommands == {32, 40, 48, 64, 80, 96, 112}

\* the bytes the storage held where such a run computes with an unset track
\* register: two from which it wraps, and one from which it does not
StepHeldInputs == {0, 2, 255}

StepTick ==
    \/ \E n \in CycleInputs : Call(n)
    \/ IterateAmong(StepHeldInputs)

\* One such command written to a controller in Waiting, under ticks that keep
\* coming; whether the index hole ever passes is left to the drive.
NextStep ==
    \/ \E c \in StepCommands : ~hist.tracking /\ SetRegister(0, c, FALSE)
    \/ StepTick

SpecStep == Init /\ [][NextStep]_vars /\ WF_vars(StepTick)

\* The total of cycles a metered run passes to run_for_cycles.
MaxFed == 40
\* and the iterations it is followed for while the accumulator is unset (the
\* loop can then run for longer than any total passed)
MaxBlind == 10

\* the arguments of run_for_cycles in a metered run: one step's worth of
\* cycles, one cycle more, and several steps' worth at once
CycleSplits == {8, 9, 24}

\* a Type 2 command with spin-up, which ends in TestWrite, and a Type 3
\* command (BeginType3): states run_for_cycles has no case for
MeteredCommands == {128, 192}

InitMetered ==
    /\ WDInit /\ meter = [NoMeter EXCEPT !.on = TRUE]
    /\ amiga = AmigaInit /\ build = ConcreteMachine("kickstart13", NoMedia)
    /\ OthersInit

\* One command written to a controller in Waiting; run_for_cycles called with
\* any split of at most MaxFed cycles; index pulses while the motor is on.
NextCycles ==
    \/ \E c \in MeteredCommands : ~hist.tracking /\ SetRegister(0, c, FALSE)
    \/ \E n \in CycleSplits : meter.fed + n <= MaxFed /\ Call(n)
    \/ (wd.cycles = Unset => meter.msteps < MaxBlind) /\ Iterate(FALSE)

SpecCycles == InitMetered /\ [][NextCycles]_vars

\* the commands of a run that also reads the registers
RegsCommands == {40}

\* the values written to the track, sector and data registers in such a run
RegsInputs == {2}

\* Register reads and writes at any address between the calls of run_for_cycles.
NextRegs ==
    \/ \E a \in 0..3 :
         \E v \in (IF a = 0 THEN RegsCommands ELSE RegsInputs) :
            hist.writes < MaxWrites /\ SetRegister(a, v, TRUE)
    \/ \E a \in 0..3 : GetRegister(a)
    \/ \E n \in CycleInputs : Call(n)
    \/ Iterate(FALSE)

\* such a run starts with the drive's head at track zero
InitRegs == Init /\ drive.head_position_ = 0

SpecRegs == InitRegs /\ [][NextRegs]_vars

\* the processor hands one bus cycle to the machine
PerformBusOperation(cycle) ==
    /\ build.status = "built"
    /\ amiga' = perform_bus_operation(amiga, cycle)
    /\ UNCHANGED <<wd, drive, pc, hist, usteps, meter, bus, build, ppc, mac>>

\* Any sequence of bus cycles, the floppy controller left alone.
NextAmiga == \E cycle \in Cycles : PerformBusOperation(cycle)

InitAmiga ==
    /\ Init
    /\ drive.head_position_ = 0

SpecAmiga == InitAmiga /\ [][NextAmiga]_vars

\* Machine::Amiga is called; the caller tries again after MissingROMs, and
\* nothing follows the end of the process
Construct(kind, roms, media) ==
    /\ build.status \in {"unbuilt", "failed"}
    /\ build' \in Machine_Amiga(kind, roms, media)
    /\ amiga' = IF build'.status = "built" THEN AmigaInit ELSE amiga
    /\ UNCHANGED <<wd, drive, pc, hist, usteps, meter, bus, ppc, mac>>

\* ConcreteMachine::insert_media is called on the machine built
InsertMedia(media) ==
    /\ build.status = "built"
    /\ build' = insert_media(build, media)
    /\ UNCHANGED <<wd, drive, pc, hist, usteps, meter, bus, amiga, ppc, mac>>

\* accesses to the CIAs: each alone, both, and CIA space with neither selected
CIAAddresses == { \Hbfe001, \Hbfd000, \Hbfc001, \Hbff000 }
CIAValues == { \Hc028, \H1234 }

CIACycles ==
    [operation : ReadOperations \ {{"InterruptAcknowledge", "NewAddress",
                                    "SelectByte", "Read"}},
     address : CIAAddresses, length : StrobedLengths, value : {0}]
    \cup [operation : WriteOperations, address : CIAAddresses,
          length : StrobedLengths, value : CIAValues]

\* The machine is constructed, which fails until the ROM fetcher delivers,
\* and then has media inserted and serves accesses to its CIAs.
NextMachine ==
    \/ \E kind \in TargetKinds, roms \in RomFetches, media \in MachineMedia :
         Construct(kind, roms, media)
    \/ \E media \in MachineMedia : InsertMedia(media)
    \/ \E cycle \in CIACycles : PerformBusOperation(cycle)

InitMachine ==
    /\ WDInit
    /\ drive.head_position_ = 0
    /\ meter = NoMeter /\ amiga = AmigaInit /\ build = Unbuilt
    /\ OthersInit

SpecMachine == InitMachine /\ [][NextMachine]_vars

\* an accessor is called on both instructions
Access(f) ==
    /\ ppc' = [ppc EXCEPT !.field = f,
                          !.value_a = Accessor(f, ppc.a),
                          !.value_b = Accessor(f, ppc.b)]
    /\ UNCHANGED <<wd, drive, pc, hist, usteps, meter, bus, amiga, build, mac>>

\* Two instructions built from the same raw word, with any operation tags and
\* supervisor flags; then any sequence of accessor calls.
InitPPC ==
    /\ WDInit
    /\ drive.head_position_ = 0
    /\ meter = NoMeter /\ amiga = AmigaInit /\ build = Unbuilt /\ mac = MacInit
    /\ \E opcode \in OpcodeInputs, oa \in OperationInputs, ob \in OperationInputs,
          sb \in BOOLEAN :
            ppc = [PPCInit EXCEPT !.a = Instruction(oa, opcode, FALSE),
                                  !.b = Instruction(ob, opcode, sb)]

NextPPC == \E f \in Accessors : Access(f)

SpecPPC == InitPPC /\ [][NextPPC]_vars

\* the analyser is asked about a bundle of media
CallGetTargets(media, file_name, potential_platforms) ==
    /\ mac' = [called |-> TRUE, media |-> media, file_name |-> file_name,
               potential_platforms |-> potential_platforms,
               targets |-> GetTargets(media, file_name, potential_platforms)]
    /\ UNCHANGED <<wd, drive, pc, hist, usteps, meter, bus, amiga, build, ppc>>

NextMac ==
    \E media \in MediaInputs, file_name \in FileNameInputs,
       potential_platforms \in PlatformInputs :
         CallGetTargets(media, file_name, potential_platforms)

InitMac ==
    /\ WDInit
    /\ drive.head_position_ = 0
    /\ meter = NoMeter /\ amiga = AmigaInit /\ build = Unbuilt /\ ppc = PPCInit
    /\ mac = MacInit

SpecMac == InitMac /\ [][NextMac]_vars

(***************************************************************************)
(* Properties.                                                             *)
(***************************************************************************)
\* The members the constructor leaves unset and the code writes before it
\* reads them: the command register is read only with a command pending or
\* dispatched, the pulse count only by an index hole, which passes only with the
\* motor on, the recorded next state only in the wait, the step delay count
\* only in StepDelay; the data shift register is read only in the statement
\* after the one that writes it (TestTrack).
WrittenBeforeRead ==
    /\ (wd.has_command_ \/ wd.state_ # "Waiting") => wd.command_ \in Byte
    /\ HasFlag(wd.status_, Flag.MotorOn) => wd.index_hole_count_ \in Nat
    /\ wd.state_ = "WaitForSixIndexPulses" => wd.next_state \in State
    /\ wd.state_ = "StepDelay" => wd.step_delay_count \in Nat
    /\ wd.data_shift_register_ # Unset => wd.data_shift_register_ \in Byte

Busy == HasFlag(wd.status_, Flag.Busy)
Completed == wd.state_ = "Waiting" /\ ~Busy /\ wd.interrupt_request_
\* a restore command (0x00..0x03) is being followed since it was written
Restoring == hist.tracking /\ hist.cmd \in RestoreCommands
\* the micro-steps a restore takes at most: 5 + 255 * (4 + (command & 3))
RestoreBound(cmd) == 5 + 255 * (4 + BitAnd(cmd, 3))

\* C1: a restore command written in Waiting, with no register write after it,
\* has brought the controller back to Waiting with Busy clear, the interrupt
\* request raised and the track register 0 once 5 + 255*(4 + (command & 3))
\* micro-steps have run since the dispatching one; the count never goes beyond.
C1_RestoreCompletesWithinBound ==
    Restoring =>
        /\ usteps <= RestoreBound(hist.cmd)
        /\ hist.done => (Completed /\ wd.track_ = 0)
        /\ usteps = RestoreBound(hist.cmd) => hist.done
        /\ (~hist.done /\ pc = "idle" /\ usteps > 0) => ENABLED (\E n \in CycleInputs : Call(n))

\* a restore written with the track register as the storage left it, any
\* value at all, has completed after 5 + 255*4 micro-steps
C1_Witness ==
    /\ Restoring /\ hist.cmd = 0 /\ hist.track0 = Unset /\ hist.done
    /\ usteps = 1025 /\ Completed /\ wd.track_ = 0

\* the index hole passed during this iteration of the loop and ended the wait:
\* the switch then read the recorded next state
SixthHole ==
    /\ pc = "loop" /\ wd.state_ = "WaitForSixIndexPulses"
    /\ wd.index_hole_count_ = SixPulses - 1 /\ wd'.index_hole_count_ = SixPulses

\* the state the switch of this iteration read
Acting == IF SixthHole THEN wd.next_state ELSE wd.state_

\* C2: the controller leaves WaitForSixIndexPulses exactly at the sixth index
\* hole since it entered, for the state recorded at entry (BeginType1PostSpin
\* from BeginType1, TestPause from BeginType2), whose case the iteration in
\* which the hole passes then runs; the first five holes and the iterations of
\* run_for_cycles in which no hole passes leave it waiting.
C2_SixPulseWait ==
    [][/\ wd'.state_ = "WaitForSixIndexPulses" => wd'.index_hole_count_ < 6
       /\ (wd.state_ # "WaitForSixIndexPulses" /\ wd'.state_ = "WaitForSixIndexPulses")
            => /\ pc = "loop" /\ wd'.index_hole_count_ = 0
               /\ \/ wd.state_ = "BeginType1" /\ wd'.next_state = "BeginType1PostSpin"
                  \/ wd.state_ = "BeginType2" /\ wd'.next_state = "TestPause"
       /\ (wd.state_ = "WaitForSixIndexPulses" /\ wd'.state_ = "WaitForSixIndexPulses")
            => /\ wd'.next_state = wd.next_state
               /\ wd'.index_hole_count_ \in
                     {wd.index_hole_count_, wd.index_hole_count_ + 1}
       /\ (wd.state_ = "WaitForSixIndexPulses" /\ wd'.state_ # "WaitForSixIndexPulses")
            => /\ SixthHole
               /\ wd.next_state \in {"BeginType1PostSpin", "TestPause"}
               /\ LET moved == [wd EXCEPT !.state_ = wd.next_state,
                                          !.index_hole_count_ = SixPulses]
                      r == MicroStep(moved, drive, FALSE, NoReads, NoHeld)
                  IN  /\ wd' = [r.wd EXCEPT !.cycles = wd'.cycles]
                      /\ drive' = r.drive
       /\ (wd.state_ = "WaitForSixIndexPulses" /\ wd'.index_hole_count_ = 6)
            => wd'.state_ # "WaitForSixIndexPulses"
       /\ (wd.state_ = "WaitForSixIndexPulses"
             /\ wd'.index_hole_count_ = wd.index_hole_count_)
            => wd'.state_ = "WaitForSixIndexPulses"
      ]_vars

\* the only command written asked for the wait, which the sixth index hole
\* ended: the TestPause case ran in the iteration in which it passed
C2_Witness ==
    /\ hist.writes = 1 /\ hist.tracking /\ hist.cmd = 128
    /\ wd.state_ = "TestWrite" /\ wd.next_state = "TestPause"
    /\ wd.index_hole_count_ = 6 /\ wd.messages = 0

\* C3 as stated: after 0x03 written with track and data registers both 5, the
\* command completes with the track register still 5 and no head step issued.
C3_Original ==
    (hist.tracking /\ hist.cmd = 3 /\ hist.track0 = 5 /\ hist.target = 5 /\ hist.done)
        => (Completed /\ wd.track_ = 5 /\ hist.head_steps = 0)

\* C3 amended: after 0x03 written with track and data registers both 5, ticks
\* enough bring the controller to Waiting with Busy clear and the track
\* register 0: the micro-steps of the command are bounded in number, a tick is
\* possible for as long as it has not completed, and it completes so.
C3_RestoreFromFive ==
    (hist.tracking /\ hist.cmd = 3 /\ hist.track0 = 5 /\ hist.target = 5)
        => /\ hist.done => (wd.state_ = "Waiting" /\ ~Busy /\ wd.track_ = 0)
           /\ usteps <= RestoreBound(hist.cmd)
           /\ usteps = RestoreBound(hist.cmd) => hist.done
           /\ (~hist.done /\ pc = "idle") => ENABLED (\E n \in CycleInputs : Call(n))

\* the command has completed so, the track register having left 5 for 0
C3_Witness ==
    /\ hist.tracking /\ hist.cmd = 3 /\ hist.track0 = 5 /\ hist.target = 5
    /\ hist.done /\ wd.state_ = "Waiting" /\ ~Busy /\ wd.track_ = 0

\* C4: a seek without verify, written in Waiting with T in the data register,
\* completes with the track register equal to T.
C4_SeekReachesTarget ==
    (hist.tracking /\ Shr(hist.cmd, 4) = 1 /\ BitAnd(hist.cmd, 4) = 0 /\ hist.done
        /\ hist.target # Unset)
        => wd.track_ = hist.target

\* C5: a Type 1 command with the verify bit set that has finished stepping
\* (is in TestVerify) eventually completes: Waiting, Busy clear, interrupt raised.
C5_VerifyCompletes ==
    (wd.state_ = "TestVerify" /\ BitAnd(wd.command_, 4) # 0) ~> Completed

\* C6: during a restore, a head test that finds the drive at track zero issues
\* no head step, sets the track register to 0 and goes on to TestVerify.
C6_TrackZeroEndsRestore ==
    [][(Restoring /\ pc = "loop" /\ wd.state_ = "TestHead" /\ DriveIsTrackZero(drive))
          => /\ wd'.state_ = "TestVerify" /\ wd'.track_ = 0
             /\ drive'.head_position_ = drive.head_position_
             /\ hist'.head_steps = hist.head_steps]_vars

\* C7: the BeginType1 micro-step enters the six-index-pulse wait if and only if
\* command bit 3 (0x08) is clear, and otherwise goes to BeginType1PostSpin.
C7_Type1SpinUp ==
    [][(pc = "loop" /\ wd.state_ = "BeginType1")
          => IF BitAnd(wd.command_, 8) = 0
             THEN wd'.state_ = "WaitForSixIndexPulses"
             ELSE wd'.state_ = "BeginType1PostSpin"]_vars

\* the family the top two command bits select
Family(command) ==
    IF command < 128 THEN "BeginType1"
    ELSE IF command < 192 THEN "BeginType2" ELSE "BeginType3"

\* C8: the pending flag is cleared only by a micro-step taken in Waiting, which
\* selects the family from command bits 7 and 6 (bit 7 clear: BeginType1
\* whatever bit 6); a micro-step in Waiting with nothing pending changes nothing
\* but the cycle accumulator (and the rotation of a running drive, with the
\* count of the index holes it reports).
C8_Dispatch ==
    [][/\ (wd.has_command_ /\ ~wd'.has_command_)
            => pc = "loop" /\ wd.state_ = "Waiting"
       /\ (pc = "loop" /\ wd.state_ = "Waiting" /\ wd.has_command_)
            => /\ ~wd'.has_command_
               /\ wd'.state_ = Family(wd.command_)
               /\ wd' = [wd EXCEPT !.has_command_ = FALSE, !.state_ = wd'.state_,
                                   !.cycles = wd'.cycles,
                                   !.index_hole_count_ = wd'.index_hole_count_]
       /\ (pc = "loop" /\ wd.state_ = "Waiting" /\ ~wd.has_command_)
            => /\ wd' = [wd EXCEPT !.cycles = wd'.cycles,
                                   !.index_hole_count_ = wd'.index_hole_count_]
               /\ wd'.index_hole_count_ \in
                     {wd.index_hole_count_, wd.index_hole_count_ + 1}
               /\ drive'.head_position_ = drive.head_position_
      ]_vars

\* a Type 3 command written while a Type 1 command was in progress stayed
\* pending until that command had completed, interrupt request raised, and
\* was dispatched by the Waiting micro-step after it
C8_Witness ==
    /\ hist.writes = 2 /\ ~hist.tracking
    /\ wd.command_ = 192 /\ wd.state_ = "BeginType3" /\ ~wd.has_command_
    /\ wd.interrupt_request_ /\ ~Busy

\* C9: the BeginType1 micro-step sets Busy, clears DataRequest and CRCError
\* (whatever the status was) and de-asserts the interrupt request (whether or
\* not an earlier command had left it raised); Busy is
\* cleared only by the TestVerify micro-step that raises the interrupt request
\* and returns to Waiting.
C9_Type1StatusLifecycle ==
    [][/\ (pc = "loop" /\ wd.state_ = "BeginType1")
            => /\ Busy' /\ ~wd'.interrupt_request_
               /\ ~HasFlag(wd'.status_, Flag.DataRequest)
               /\ ~HasFlag(wd'.status_, Flag.CRCError)
               /\ \A st \in StatusInputs, irq \in BOOLEAN :
                     LET w == CaseBeginType1([wd EXCEPT !.status_ = st,
                                                        !.interrupt_request_ = irq])
                     IN  /\ w.status_ = BitClear(BitOr(st, 1), 10)
                         /\ ~w.interrupt_request_
       /\ (Busy /\ ~Busy')
            => /\ pc = "loop" /\ wd.state_ = "TestVerify"
               /\ wd'.interrupt_request_ /\ wd'.state_ = "Waiting"
       /\ (pc = "loop" /\ wd.state_ = "TestVerify" /\ wd'.state_ = "Waiting")
            => ~Busy' /\ wd'.interrupt_request_
      ]_vars

\* a step-in command written in Waiting after a command that had spun the
\* motor up and completed, interrupt request raised, is past its BeginType1:
\* Busy set and the request de-asserted
C9_Witness ==
    /\ hist.writes = 2 /\ hist.tracking /\ hist.cmd = 64
    /\ wd.state_ = "BeginType1PostSpin"
    /\ wd.status_ = Flag.MotorOn + Flag.Busy /\ ~wd.interrupt_request_

\* C10: a Type 2 command that has been dispatched (is in BeginType2) eventually
\* has Busy clear again with the controller back in Waiting.
C10_Type2Completes ==
    (wd.state_ = "BeginType2") ~> (wd.state_ = "Waiting" /\ ~Busy)


(***************************************************************************)
(* C11: a micro-step in a state run_for_cycles has no case for changes     *)
(* neither the state nor the status, track, sector, data or command        *)
(* registers, ends that call at once whatever is left in the accumulator,  *)
(* and prints its message at most once: the line count never passes one.   *)
(***************************************************************************)
C11_UnhandledState ==
    [][ /\ wd'.messages <= 1
        /\ (pc = "loop" /\ wd.state_ \notin Handled) =>
              /\ pc' = "idle"
              /\ wd'.messages = 1
              /\ wd' = [wd EXCEPT !.cycles = Spent(@),
                                  !.has_hit_error = TRUE,
                                  !.messages = 1,
                                  !.index_hole_count_ = wd'.index_hole_count_]
              /\ drive'.head_position_ = drive.head_position_ ]_vars

\* the default case was taken twice, first inside the first call, made with
\* the accumulator as the storage left it, and both calls ended with more
\* than a step's worth of cycles still in the accumulator
C11_Witness ==
    /\ wd.state_ = "BeginType3"
    /\ meter.defaults = 2 /\ meter.fed = 16
    /\ wd.messages = 1
    /\ pc = "idle"
    /\ wd.cycles = Unset

(***************************************************************************)
(* C17: after calls of run_for_cycles that total N cycles on a fresh       *)
(* controller which stayed in handled states, floor(N / 8) micro-steps     *)
(* have been executed.                                                     *)
(***************************************************************************)
C17_TickGranularity ==
    (meter.on /\ meter.start = 0 /\ pc = "idle" /\ meter.defaults = 0) =>
        meter.msteps = meter.fed \div CyclesPerStep

(***************************************************************************)
(* C18: every iteration of the loop of run_for_cycles takes exactly 8      *)
(* cycles from the accumulator and runs the drive for exactly one cycle    *)
(* if the motor-on bit was set when the iteration began, in every state,   *)
(* the unhandled ones included; nothing else runs the drive.               *)
(***************************************************************************)
C18_DriveCadence ==
    [][ /\ pc = "loop" =>
              /\ IF wd.cycles # Unset THEN wd'.cycles = wd.cycles - 8
                 ELSE wd'.cycles \in {Unset} \cup 1..8
              /\ meter'.msteps = meter.msteps + 1
              /\ meter'.dcycles = meter.dcycles +
                    (IF HasFlag(wd.status_, Flag.MotorOn) THEN 1 ELSE 0)
              /\ drive'.rotation_ =
                    IF HasFlag(wd.status_, Flag.MotorOn)
                    THEN (drive.rotation_ + 1) % RotationLength
                    ELSE drive.rotation_
        /\ pc = "idle" =>
              /\ meter'.dcycles = meter.dcycles
              /\ drive'.rotation_ = drive.rotation_
              /\ meter'.msteps = meter.msteps
              /\ wd.cycles # Unset =>
                    wd'.cycles - wd.cycles = meter'.fed - meter.fed ]_vars

\* the drive has been run in an unhandled state, and for fewer cycles than
\* there were iterations: some began with the motor off
C18_Witness ==
    /\ wd.state_ = "TestWrite"
    /\ meter.defaults >= 1
    /\ meter.dcycles >= 3
    /\ meter.dcycles < meter.msteps

(***************************************************************************)
(* C19: an index hole that passes in a state other than                    *)
(* WaitForSixIndexPulses, or that does not bring the count to six, adds    *)
(* one to the pulse count and changes nothing else of the controller: the  *)
(* iteration in which it passes does what it does without the hole, but    *)
(* for the count (which BeginType1 and BeginType2 may reset after it).     *)
(***************************************************************************)
C19_IndexPulseInert ==
    [][ (/\ pc = "loop" /\ HasFlag(wd.status_, Flag.MotorOn)
         /\ (wd.state_ # "WaitForSixIndexPulses"
               \/ wd.index_hole_count_ + 1 # SixPulses))
        => \E seen \in ReadsOf(wd), held \in HeldOf(wd) :
           LET w1 == [wd EXCEPT !.cycles = Spent(@)]
               without == [MicroStep(wd, drive, FALSE, seen, held).wd
                              EXCEPT !.cycles = wd'.cycles]
           IN  /\ process_index_hole(w1) = [w1 EXCEPT !.index_hole_count_ = @ + 1]
               /\ drive' = MicroStep(wd, drive, FALSE, seen, held).drive
               /\ \/ wd' = without
                  \/ wd' = [without EXCEPT
                              !.index_hole_count_ = wd.index_hole_count_ + 1] ]_vars

\* a seventh hole passed after the wait of a first command was over, and the
\* count did not disturb the second, a Type 3 command, which the controller
\* has dispatched with the motor still on
C19_Witness ==
    /\ hist.writes = 2 /\ wd.command_ = 192
    /\ wd.index_hole_count_ = SixPulses + 1
    /\ wd.state_ = "BeginType3" /\ wd.has_hit_error
    /\ HasFlag(wd.status_, Flag.MotorOn)

(***************************************************************************)
(* C20: get_register, set_register at any address and process_index_hole   *)
(* leave the status register and the interrupt request line as they were:  *)
(* both change only in the cases of the switch of run_for_cycles; the      *)
(* index hole that passes during an iteration hands that switch the status *)
(* and the interrupt request the iteration began with.                     *)
(***************************************************************************)
C20_StatusOnlyInMicroSteps ==
    [][ /\ pc = "idle" =>
              /\ wd'.status_ = wd.status_
              /\ wd'.interrupt_request_ = wd.interrupt_request_
        /\ pc = "loop" =>
              LET noticed == process_index_hole([wd EXCEPT !.cycles = Spent(@)])
                  without == MicroStep(wd, drive, FALSE, NoReads, NoHeld).wd
              IN  /\ noticed.status_ = wd.status_
                  /\ noticed.interrupt_request_ = wd.interrupt_request_
                  /\ (wd.state_ # "WaitForSixIndexPulses"
                        \/ wd'.state_ = "WaitForSixIndexPulses")
                       => /\ wd'.status_ = without.status_
                          /\ wd'.interrupt_request_ = without.interrupt_request_
      ]_vars

\* the command register was written while a command was in progress, Busy set
\* and the motor on, and the status register read the same after the write
C20_Witness ==
    /\ hist.writes = 2 /\ ~hist.tracking /\ wd.has_command_
    /\ wd.status_ = Flag.MotorOn + Flag.Busy
    /\ bus = Flag.MotorOn + Flag.Busy
    /\ pc = "idle"

(***************************************************************************)
(* Properties of the Amiga's bus handler.  Every step that changes amiga   *)
(* is one call of perform_bus_operation, for the cycle amiga'.last.cycle.  *)
(***************************************************************************)
\* the cycle has a data strobe and an address that no memory region, CIA or
\* chip register answers
OpenBus(cycle) ==
    /\ "InterruptAcknowledge" \notin cycle.operation
    /\ cycle.operation \cap {"NewAddress", "SameAddress"} # {}
    /\ cycle.operation \cap {"SelectByte", "SelectWord"} # {}
    /\ cycle.address \notin 0..(\H200000 - 1)
    /\ cycle.address \notin \Hfc0000..\Hffffff
    /\ cycle.address \notin \Ha00000..\Hbfffff
    /\ cycle.address \notin \Hdff000..\Hdff1be

(***************************************************************************)
(* C12: a cycle with a data strobe at an address that nothing answers      *)
(* returns 0xffff if it is a read and keeps its value if it is a write;    *)
(* memory contents, the CIA registers and the chipset's registers are as   *)
(* they were once the chipset had been advanced.                           *)
(***************************************************************************)
C12_OpenBus ==
    [][ (amiga' # amiga /\ OpenBus(amiga'.last.cycle)) =>
          /\ amiga'.last.exit = "open_bus"
          /\ amiga'.last.value =
                IF "Read" \in amiga'.last.cycle.operation
                THEN \Hffff ELSE amiga'.last.cycle.value
          /\ amiga'.memory = amiga.memory
          /\ amiga'.cia_a = amiga.cia_a
          /\ amiga'.cia_b = amiga.cia_b
          /\ amiga'.chipset = amiga'.last.advanced ]_vars

\* a write of the value that would clear the master enable, at an address
\* past the window where the register number of INTENA repeats, has been
\* dropped with interrupts enabled
C12_Witness ==
    /\ amiga.last.exit = "open_bus"
    /\ amiga.last.cycle.address = \Hdff29a
    /\ amiga.last.cycle.value = \H4020
    /\ "Read" \notin amiga.last.cycle.operation
    /\ amiga.chipset.interrupt_level_ > 0

(***************************************************************************)
(* C13: over one call of perform_bus_operation the chipset's time advances *)
(* by exactly the cycle's length plus the delay the call returns.          *)
(***************************************************************************)
C13_TimeAccounting ==
    amiga.chipset.elapsed = amiga.last.cycle.length + amiga.last.delay

(***************************************************************************)
(* C14: the delay returned is the time from the chipset's position on      *)
(* entry to the processor's next chip-memory slot if the cycle has         *)
(* NewAddress set and an address below 0x200000, and zero otherwise,       *)
(* whichever exit the call takes.                                          *)
(***************************************************************************)
C14_ReturnedDelay ==
    amiga.last.delay =
        IF /\ "NewAddress" \in amiga.last.cycle.operation
           /\ amiga.last.cycle.address < \H200000
        THEN (SlotPeriod - (amiga.last.entry.x_ % SlotPeriod)) % SlotPeriod
        ELSE 0

\* an interrupt acknowledge that announced a chip RAM address between slots
\* has returned the delay to the next slot
C14_Witness ==
    /\ amiga.last.exit = "acknowledge"
    /\ amiga.last.delay > 0

\* the cycle wrote INTENA or INTREQ through the chipset
WroteInterruptRegister ==
    /\ amiga.last.exit = "chipset"
    /\ "Read" \notin amiga.last.cycle.operation
    /\ amiga.last.cycle.address \in { \Hdff09a, \Hdff09c }

(***************************************************************************)
(* C15, as claimed: after every call of perform_bus_operation the level    *)
(* last passed to the 68000 is the chipset's current interrupt level.      *)
(***************************************************************************)
C15_Original ==
    amiga.cpu.interrupt_level = amiga.chipset.interrupt_level_

(***************************************************************************)
(* C15, amended: after a call of perform_bus_operation the level last      *)
(* passed to the 68000 is the chipset's current level unless the cycle     *)
(* wrote INTENA or INTREQ; then it is the level of the masks as they were  *)
(* once the chipset had been advanced, before the write.                   *)
(***************************************************************************)
C15_SampledAfterAdvance ==
    /\ ~WroteInterruptRegister =>
          amiga.cpu.interrupt_level = amiga.chipset.interrupt_level_
    /\ WroteInterruptRegister =>
          amiga.cpu.interrupt_level =
              InterruptLevel(amiga.last.advanced.interrupt_enable_,
                             amiga.last.advanced.interrupt_requests_)

\* a write to INTENA has raised the chipset's level above the level the
\* 68000 was given, which is no longer the level it had been given before
C15_Witness ==
    /\ WroteInterruptRegister
    /\ amiga.cpu.interrupt_level = 2
    /\ amiga.chipset.interrupt_level_ = 3

(***************************************************************************)
(* C16: the chipset's interrupt level always is the level of the highest   *)
(* enabled request of its two masks, after a register write and after an   *)
(* advance that raised a request alike.                                    *)
(***************************************************************************)
C16_InterruptLevel ==
    amiga.chipset.interrupt_level_ =
        InterruptLevel(amiga.chipset.interrupt_enable_,
                       amiga.chipset.interrupt_requests_)

\* the advance of a cycle raised the vertical blank request, and with it the
\* level, before the cycle's own write to INTREQ cleared it again
C16_Witness ==
    /\ amiga.last.cycle.address = \Hdff09c
    /\ amiga.last.exit = "chipset"
    /\ amiga.last.entry.interrupt_level_ = 2
    /\ amiga.last.advanced.interrupt_level_ = 3
    /\ amiga.chipset.interrupt_level_ = 2

(***************************************************************************)
(* C24, as claimed: from the write of a restore command (0x00) with the    *)
(* track register holding V until the command completes, the track         *)
(* register never exceeds V.                                               *)
(***************************************************************************)
C24_Original ==
    (hist.tracking /\ hist.cmd = 0 /\ ~hist.done /\ hist.track0 # Unset)
        => wd.track_ <= hist.track0

(***************************************************************************)
(* C24, amended: from the write of a restore command (0x00) with the track  *)
(* register holding V, the register keeps V until the BeginType1PostSpin   *)
(* micro-step sets it to 0xff, whatever V was; from then on no micro-step  *)
(* increases it, and it is 0 when the command completes.                   *)
(***************************************************************************)
C24_RestoreCountsDownFrom255 ==
    [][ (hist.tracking /\ hist.cmd = 0 /\ ~hist.done /\ pc = "loop") =>
          /\ wd.state_ \in {"Waiting", "BeginType1"} =>
                wd'.track_ = hist.track0
          /\ wd.state_ = "BeginType1PostSpin" => wd'.track_ = 255
          /\ wd.state_ \notin {"Waiting", "BeginType1", "BeginType1PostSpin"} =>
                wd'.track_ <= wd.track_
          /\ hist'.done => wd'.track_ = 0 ]_vars

\* a restore written with the track register at 5 has completed at 0 after
\* the register went to 0xff and came down by 255 head steps
C24_Witness ==
    /\ hist.tracking /\ hist.cmd = 0 /\ hist.done
    /\ hist.track0 = 5
    /\ hist.head_steps = 255
    /\ wd.track_ = 0

(***************************************************************************)
(* C25: the controller is in StepDelay for (command & 3) + 1 micro-steps:  *)
(* while it is there, the micro-steps it has spent there do not exceed     *)
(* command & 3, command being the byte the command register holds.         *)
(***************************************************************************)
C25_StepDelayLength ==
    wd.state_ = "StepDelay" => wd.step_delay_count <= BitAnd(wd.command_, 3)

\* a step, step-in or step-out command without verify is being followed
StepFamily ==
    /\ hist.tracking
    /\ hist.cmd < 128 /\ Shr(hist.cmd, 5) # 0
    /\ BitAnd(hist.cmd, 4) = 0

\* such a command has completed
StepDone == StepFamily /\ hist.done /\ Completed

\* the micro-steps of such a command: the track register is moved by exactly one
\* (modulo 256) before the head test if and only if bit 0x10 is set; the head
\* test issues one head step unless the drive is at track zero with the
\* direction 'not step-in', when it issues none and sets the track register to 0;
\* never more than one step is issued, and the command completes in the
\* TestVerify micro-step: Waiting, Busy clear, interrupt request raised
StepFamilySteps ==
    [][ (StepFamily /\ ~hist.done /\ pc = "loop") =>
             /\ hist'.head_steps <= 1
             /\ Acting = "BeginType1PostSpin" =>
                   /\ wd'.track_ = hist.track0
                   /\ wd'.state_ = IF BitAnd(hist.cmd, 16) # 0
                                   THEN "TestDirection" ELSE "TestHead"
             /\ wd.state_ = "TestDirection" =>
                   /\ wd'.track_ \in {(hist'.track0 + 1) % 256,
                                      (hist'.track0 + 255) % 256}
                   /\ hist'.track0 \in Byte
                   /\ hist.track0 # Unset => hist'.track0 = hist.track0
                   /\ wd'.state_ = "TestHead"
             /\ wd.state_ = "TestHead" =>
                   \E seen \in ReadsOf(wd) :
                      IF DriveIsTrackZero(drive) /\ ~ReadIsStepIn(wd, seen[1])
                      THEN /\ hist'.head_steps = 0 /\ wd'.track_ = 0
                           /\ drive'.head_position_ = drive.head_position_
                      ELSE hist'.head_steps = 1 /\ wd'.track_ = wd.track_
             /\ wd.state_ \in {"StepDelay", "TestVerify"} => wd'.track_ = wd.track_
             /\ hist'.done =>
                   /\ wd'.state_ = "Waiting" /\ ~Busy' /\ wd'.interrupt_request_
                   /\ wd.state_ = "TestVerify" ]_vars

(***************************************************************************)
(* C26, as claimed: a step, step-in or step-out command without verify,    *)
(* left alone, takes the micro-steps above and then completes in Waiting   *)
(* with Busy clear and the interrupt request raised, under ticks that keep *)
(* coming.                                                                 *)
(***************************************************************************)
C26_Original ==
    /\ StepFamilySteps
    /\ StepFamily ~> StepDone

\* the six index pulses of the wait have arrived
PulsesArrived ==
    /\ wd.state_ # "WaitForSixIndexPulses"
    /\ wd.index_hole_count_ # Unset /\ wd.index_hole_count_ >= SixPulses

(***************************************************************************)
(* C26, amended: such a command takes the micro-steps above; under ticks   *)
(* that keep coming it completes in Waiting with Busy clear and the        *)
(* interrupt request raised, or else is in WaitForSixIndexPulses, where    *)
(* BeginType1 has sent it; and once the six index pulses of that wait have *)
(* arrived it completes so.                                                *)
(***************************************************************************)
C26_StepFamily ==
    /\ StepFamilySteps
    /\ StepFamily ~> (StepDone \/ wd.state_ = "WaitForSixIndexPulses")
    /\ (StepFamily /\ PulsesArrived) ~> StepDone

\* a step-in with update has completed after one head step, the track
\* register, which held 0, having wrapped to 255
C26_Witness ==
    /\ StepDone
    /\ hist.cmd = 80
    /\ hist.head_steps = 1
    /\ hist.track0 = 0
    /\ wd.track_ = 255

(***************************************************************************)
(* C27: the BeginType2 micro-step sets Busy, clears DataRequest, LostData, *)
(* RecordNotFound and the bits 0x60, leaves the other status bits and the  *)
(* interrupt request as they were, and enters the six-pulse wait, with the *)
(* count at 0 and TestPause as next state, if and only if command bit 0x08 *)
(* is clear; otherwise it goes straight to TestPause.                      *)
(***************************************************************************)
C27_Type2Start ==
    [][ (pc = "loop" /\ wd.state_ = "BeginType2") =>
          /\ wd'.status_ = BitClear(BitOr(wd.status_, 1), 118)
          /\ wd'.interrupt_request_ = wd.interrupt_request_
          /\ \A st \in StatusInputs, irq \in BOOLEAN :
                LET w == CaseBeginType2([wd EXCEPT !.status_ = st,
                                                   !.interrupt_request_ = irq])
                IN  /\ w.status_ = BitClear(BitOr(st, 1), 118)
                    /\ w.interrupt_request_ = irq
          /\ IF BitAnd(wd.command_, 8) = 0
             THEN /\ wd'.state_ = "WaitForSixIndexPulses"
                  /\ wd'.index_hole_count_ = 0
                  /\ wd'.next_state = "TestPause"
             ELSE /\ wd'.state_ = "TestPause"
                  /\ wd'.index_hole_count_ \in
                        {wd.index_hole_count_, wd.index_hole_count_ + 1} ]_vars

\* a Type 2 command without spin-up, written after a command that had spun
\* the motor up and completed, has gone straight to TestPause: Busy set, the
\* motor on and the interrupt request raised as they were
C27_Witness ==
    /\ hist.writes = 2 /\ hist.tracking /\ hist.cmd = 136
    /\ wd.state_ = "TestPause"
    /\ wd.status_ = Flag.MotorOn + Flag.Busy
    /\ wd.interrupt_request_

\* C21: constructing the Amiga with ROMs that do not validate against the
\* Kickstart request fails with ROMMachine::Error::MissingROMs, with no ROM
\* data packed into memory, no clock rate set and no media inserted; no
\* machine is produced, so none serves a bus cycle.
C21_MissingROMs ==
    (build.status # "unbuilt" /\ ~validate(build.roms)) =>
        /\ build.status = "failed"
        /\ build.error = "MissingROMs"
        /\ build.kickstart = "empty"
        /\ build.clock_rate = 0
        /\ build.disks = <<>>
        /\ amiga.last.cycle = NoCycle

C21_Witness ==
    /\ build.status = "failed"
    /\ build.roms = "wrong"
    /\ build.target.disks # <<>>

\* C28: after perform_bus_operation the 68000's peripheral-address input is
\* true for an interrupt acknowledge, which reaches neither memory nor the
\* CIAs nor the chip registers; for any other cycle that exposes an address
\* it is true exactly if the address lies in 0xa00000..0xbfffff; a cycle that
\* exposes no address and acknowledges no interrupt leaves it as it was.
C28_PeripheralAddress ==
    [][amiga' # amiga =>
        LET cycle == amiga'.last.cycle
            address == host_endian_byte_address(cycle)
        IN  IF "InterruptAcknowledge" \in cycle.operation
            THEN /\ amiga'.cpu.is_peripheral_address
                 /\ amiga'.memory.contents = amiga.memory.contents
                 /\ amiga'.cia_a = amiga.cia_a /\ amiga'.cia_b = amiga.cia_b
                 /\ amiga'.chipset = amiga'.last.advanced
                 /\ amiga'.last.value = cycle.value
            ELSE IF cycle.operation \cap {"NewAddress", "SameAddress"} # {}
            THEN amiga'.cpu.is_peripheral_address
                    = (address >= \Ha00000 /\ address <= \Hbfffff)
            ELSE amiga'.cpu.is_peripheral_address
                    = amiga.cpu.is_peripheral_address]_vars

\* an interrupt was acknowledged at an address outside CIA space
C28_Witness ==
    /\ "InterruptAcknowledge" \in amiga.last.cycle.operation
    /\ amiga.last.cycle.address = \Hc00000
    /\ amiga.cpu.is_peripheral_address

\* a cycle with a data strobe, other than an interrupt acknowledge, at an
\* address in CIA space
CIAStrobed(cycle) ==
    /\ "InterruptAcknowledge" \notin cycle.operation
    /\ cycle.operation \cap {"NewAddress", "SameAddress"} # {}
    /\ cycle.operation \cap {"SelectByte", "SelectWord"} # {}
    /\ cycle.address >= \Ha00000 /\ cycle.address <= \Hbfffff

\* C29: a data-strobed access in CIA space reaches CIA A exactly if address
\* bit 12 is clear, on the low data byte, and CIA B exactly if address bit 13
\* is clear, on the high data byte; a read gives 0xff on the lane of a CIA
\* that is not selected and changes neither CIA; a write leaves a CIA that is
\* not selected as it was.
C29_ByteLanes ==
    [][(amiga' # amiga /\ CIAStrobed(amiga'.last.cycle)) =>
        LET cycle == amiga'.last.cycle
            selected_a == (cycle.address \div \H1000) % 2 = 0
            selected_b == (cycle.address \div \H2000) % 2 = 0
        IN  IF "Read" \in cycle.operation
            THEN /\ amiga'.last.value =
                        (IF selected_b THEN amiga.cia_b ELSE \Hff) * 256
                            + (IF selected_a THEN amiga.cia_a ELSE \Hff)
                 /\ amiga'.cia_a = amiga.cia_a /\ amiga'.cia_b = amiga.cia_b
            ELSE /\ amiga'.cia_a =
                        IF selected_a THEN cycle.value % 256 ELSE amiga.cia_a
                 /\ amiga'.cia_b =
                        IF selected_b THEN (cycle.value \div 256) % 256
                        ELSE amiga.cia_b]_vars

\* both CIAs hold a value other than 0xff and a read selecting neither gave
\* 0xffff
C29_Witness ==
    /\ amiga.last.cycle.address = \Hbff000
    /\ "Read" \in amiga.last.cycle.operation
    /\ amiga.last.value = \Hffff
    /\ amiga.cia_a = \H28 /\ amiga.cia_b = \H12

\* C22: two PowerPC instructions built from the same raw word give the same
\* result for every accessor, whatever their operation tags and supervisor
\* flags; the result is that of the word alone, so it is the same however
\* many accessors were called before; and a call changes neither instruction.
C22_Deterministic ==
    /\ [](ppc.field # "none" =>
            /\ ppc.value_a = ppc.value_b
            /\ ppc.value_a =
                 Accessor(ppc.field, Instruction("Undefined", ppc.a.opcode, FALSE)))
    /\ [][ppc'.a = ppc.a /\ ppc'.b = ppc.b]_vars

\* the segment register was read from two instructions that differ in tag
\* and supervisor flag
C22_Witness ==
    /\ ppc.field = "sr" /\ ppc.value_a = 15
    /\ ppc.b.is_supervisor /\ ~ppc.a.is_supervisor
    /\ ppc.a.operation # ppc.b.operation

\* C23: Macintosh GetTargets returns no target for media with neither disks
\* nor mass-storage devices and otherwise exactly one target, whose media is
\* the media given; never more than one; and the same for every file name
\* and every set of potential platforms.
C23_GetTargets ==
    mac.called =>
        /\ IF mac.media.disks = <<>> /\ mac.media.mass_storage_devices = <<>>
           THEN mac.targets = <<>>
           ELSE Len(mac.targets) = 1 /\ mac.targets[1].media = mac.media
        /\ Len(mac.targets) <= 1
        /\ \A file_name \in FileNameInputs, potential_platforms \in PlatformInputs :
              mac.targets = GetTargets(mac.media, file_name, potential_platforms)

\* a hard disk alone, under a name and platforms that suggest another machine
C23_Witness ==
    /\ mac.called
    /\ mac.media.disks = <<>> /\ mac.media.mass_storage_devices # <<>>
    /\ mac.media.tapes # <<>>
    /\ mac.file_name = "game.adf" /\ mac.potential_platforms = 2
    /\ Len(mac.targets) = 1

\* C30: for every raw word bo() is (branch_options() << 1) | h, with h = 1
\* exactly if branch_prediction_hint() is non-zero; bo() lies in 0..31; and
\* branch_prediction_hint() is non-zero exactly if bit 21 of the word is set.
C30_BranchOptions ==
    ppc.field = "bo" =>
        LET h == IF branch_prediction_hint(ppc.a) # 0 THEN 1 ELSE 0
        IN  /\ ppc.value_a = branch_options(ppc.a) * 2 + h
            /\ ppc.value_a \in 0..31
            /\ (branch_prediction_hint(ppc.a) # 0) = (OpcodeBit(ppc.a.opcode, 21) = 1)
            /\ branch_prediction_hint(ppc.a) \in {0, \H200000}

\* bo() was read from a word with bits 21 to 26 set and all others clear
C30_Witness ==
    /\ ppc.field = "bo" /\ ppc.value_a = 31
    /\ ppc.a.opcode = [hi |-> \H07e0, lo |-> 0]

\* C31: li() is the 24-bit field in bits 2 to 25 of the word, taken as a
\* two's-complement number and multiplied by four: a multiple of 4 between
\* -2^25 and 2^25 - 4, negative exactly if bit 25 is set, whatever bits 0, 1
\* and 26 to 31 hold.
C31_li ==
    ppc.field = "li" =>
        LET field == OpcodeField(ppc.a.opcode, 2, 24)
            signed == IF field >= 2^23 THEN field - 2^24 ELSE field
        IN  /\ ppc.value_a = 4 * signed
            /\ ppc.value_a % 4 = 0
            /\ ppc.value_a >= -(2^25) /\ ppc.value_a <= 2^25 - 4
            /\ (ppc.value_a < 0) = (OpcodeBit(ppc.a.opcode, 25) = 1)

\* li() was read from the word with every bit set
C31_Witness ==
    /\ ppc.field = "li" /\ ppc.value_a = -4
    /\ ppc.a.opcode = [hi |-> \Hffff, lo |-> \Hffff]

\* the micro-states a Type 1 command passes through once it is Busy
Type1States ==
    {"BeginType1PostSpin", "TestTrack", "TestDirection", "TestHead", "StepDelay",
     "TestVerify"}

(***************************************************************************)
(* C32: a write to the command register while a Type 1 command is in       *)
(* progress does not alter the execution of that command: every micro-step *)
(* of the command in progress does to the controller and to the drive what *)
(* it would do with the command register still holding the command that    *)
(* was dispatched, and leaves the byte written in the command register.    *)
(***************************************************************************)
C32_BusyCommandWrite ==
    [][(pc = "loop" /\ Busy /\ hist.dispatched < 128 /\ hist.busy_write
            /\ wd.state_ \in Type1States) =>
        \E hole \in BOOLEAN, seen \in ReadsOf(wd), held \in HeldOf(wd) :
           LET undisturbed ==
                   MicroStep([wd EXCEPT !.command_ = hist.dispatched], drive, hole,
                             seen, held)
           IN  /\ [wd' EXCEPT !.command_ = hist.dispatched]
                     = [undisturbed.wd EXCEPT !.cycles = wd'.cycles]
               /\ wd'.command_ = wd.command_
               /\ drive' = undisturbed.drive]_vars

(***************************************************************************)
(* C33: the interrupt request line is asserted only while Busy is clear.   *)
(***************************************************************************)
C33_InterruptOnlyWhenIdle ==
    wd.interrupt_request_ => ~Busy

(***************************************************************************)
(* C34: when TestDirection has changed the track register by -1 or +1 and  *)
(* TestHead then steps the head, the head does not move the other way.     *)
(***************************************************************************)
C34_SameDirection ==
    [][(pc = "loop" /\ StepIssued(wd, [wd |-> wd'])) =>
        (drive'.head_position_ - drive.head_position_) * hist.track_change >= 0]_vars

(***************************************************************************)
(* C35: after every call the cycle accumulator is at most 8, and from      *)
(* every state between calls run_for_cycles(a) followed by                 *)
(* run_for_cycles(b), no index hole passing, leaves the controller and the *)
(* drive as run_for_cycles(a + b) does.                                    *)
(***************************************************************************)
C35_Additive ==
    pc = "idle" =>
        /\ (meter.fed > 0 /\ wd.cycles # Unset) => wd.cycles <= CyclesPerStep
        /\ \A a \in CycleSplits, b \in CycleSplits, stored \in 0..MaxStored :
              LET first == run_for_cycles(wd, drive, a, NoHoles, <<>>, <<>>, stored)
              IN  run_for_cycles(first.wd, first.drive, b, NoHoles, <<>>, <<>>, stored)
                      = run_for_cycles(wd, drive, a + b, NoHoles, <<>>, <<>>, stored)

\* the same, in the states run_for_cycles has a case for and as long as the
\* calls stay in them
C35_AdditiveWhereHandled ==
    (pc = "idle" /\ wd.state_ \in Handled) =>
        /\ (meter.fed > 0 /\ wd.cycles # Unset) => wd.cycles <= CyclesPerStep
        /\ \A a \in CycleSplits, b \in CycleSplits, stored \in 0..MaxStored :
              LET first == run_for_cycles(wd, drive, a, NoHoles, <<>>, <<>>, stored)
                  second == run_for_cycles(first.wd, first.drive, b, NoHoles, <<>>,
                                           <<>>, stored)
                  whole == run_for_cycles(wd, drive, a + b, NoHoles, <<>>, <<>>, stored)
              IN  (~second.wd.has_hit_error /\ ~whole.wd.has_hit_error)
                      => second = whole

MotorOn == HasFlag(wd.status_, Flag.MotorOn)

\* MotorOn is clear until a command is written, becomes set only in a
\* micro-step executed in WaitForSixIndexPulses and is never cleared
MotorOnlySetInWait ==
    /\ [](hist.writes = 0 => ~MotorOn)
    /\ [][(~MotorOn /\ MotorOn') =>
             (pc = "loop" /\ wd.state_ = "WaitForSixIndexPulses")]_vars
    /\ [][MotorOn => MotorOn']_vars

\* the first write to a controller is a command whose bit 3 asks for no
\* spin-up, and nothing has been written since
FreshWithoutSpinUp ==
    /\ hist.tracking /\ hist.writes = 1
    /\ BitAnd(hist.cmd, 8) # 0

(***************************************************************************)
(* C36: MotorOn is clear after construction, becomes set only by a         *)
(* micro-step executed in WaitForSixIndexPulses and is never cleared; so a *)
(* command issued without spin-up on a fresh controller leaves MotorOn     *)
(* clear and the drive is not rotated.                                     *)
(***************************************************************************)
C36_MotorControl ==
    /\ MotorOnlySetInWait
    /\ [](FreshWithoutSpinUp => (~MotorOn /\ drive.rotation_ = 0))

====
